---- MODULE Spec2Model ----
(***************************************************************************)
(* ComposerJs: a model is composed from co-operating handlers, each        *)
(* deriving output properties from input properties.  The shape is         *)
(* declared up-front, locked by seal(), and afterwards only values, the    *)
(* node-list length and the existence of optional nodes change.  Updates   *)
(* are batched: external calls enqueue, implicated handlers are re-run,    *)
(* and only then are external listeners notified.                          *)
(*                                                                         *)
(* The repository documents the engine (README) and ships example          *)
(* handlers and models that call it; the engine is modelled here from      *)
(* that documentation.                                                     *)
(***************************************************************************)
EXTENDS Integers, Sequences, FiniteSets, TLC

\* ------------------------------------------------------------------ bounds

\* At most this many handlers are registered on one model.
MaxHandlers == 2

\* At most this many items in the node-list.
MaxList == 2

\* At most this many requests are enqueued between two drains.
MaxPending == 1

\* A beforechange listener keeps a batch open at most this many times.
MaxRounds == 2

\* At most this many messages of external sources are under way.
MaxInflight == 1

\* At most this many levels of the self-referential node `child` exist: the
\* node itself and the leaves below it.
MaxDepth == 2

\* At most this many handlers are registered with the model whose
\* evaluation order is examined.
MaxOrdered == 3

\* At most this many subscriptions are made with the message service.
MaxSubscriptions == 3

\* At most this many legs are in the node-list of a ticket.
MaxLegs == 3

\* Tenors are numbers of days from 1 to this.
MaxTenor == 3

\* ------------------------------------------------------- values and shape

\* JavaScript null: the value of a property nothing has provided yet.
Null == -1

\* The node-list, seen as a property whose value is the list's length().
ListProp == "nodes"

\* The identities items can have: no more items are referred to at once, by
\* the lists the model and its listeners hold and by the messages under way,
\* than the node-list has room for.
ItemIds == 1..MaxList

\* The property `n` of the item x of the node-list.
ItemProp(x) == <<"n1", "n2", "n3", "n4">>[x]

ItemProps == {ItemProp(x) : x \in ItemIds}

\* The leaves below `child`, seen as a property of `child` whose value is
\* their number, Null when there is none.
TreeProp == "leaves"

\* Properties of the root node (down0 is its property `down`), of the
\* optional node `child` (q, r, up, down), of the
\* items of the node-list, and the node-list.
Props ==
  {"a", "b", "sum", "out", "data", "allNames", "down0", "kept", "joined",
   "q", "r", "f", "up", "down", TreeProp, ListProp}
    \cup ItemProps

\* Properties define() may provide, with the value it gives each.
Definable == {"a", "b", "q"}

DefVal(p) == CASE p = "a" -> 2 [] p = "b" -> 3 [] OTHER -> 2

\* Values set() is called with.
SetVals == {10}

\* The value nodes.define('n', value) gives the property `n` of every new
\* item, and the values set() is called with on an item.
ItemDefault == 1
ItemVals == {2}

\* Properties get() is called for.
Readable == {"a", "sum"}

\* Values the external source of hExt delivers.
ExtVals == {7}

\* The node a property lives on.
PropNode(p) ==
  IF p \in {"q", "r", "f", "up", "down", TreeProp} THEN "child"
  ELSE IF p \in ItemProps THEN "item"
  ELSE "root"

\* The handlers a model may register.  hSum is the summation handler; hBack
\* feeds sum back into a (a cycle with hSum); hMux co-provides sum; hOut is
\* downstream of sum; hExt is externally updated; hNode lives on `child`;
\* hItem is the handler of the node-list's items; hNames, on the root,
\* takes the property `n` of the items as a list; hUp and hDown live on
\* `child`: hUp provides `up` from the `down` of the node above, hDown
\* provides `down` from the `up` of the leaf below.  hKeep, on the root,
\* provides `kept` from `a`, unless `kept` was set from outside.  hFoo is
\* added to the specialization 'foo' of `child` and provides `f` from `q`.
\* hAll, hAllOnNode and hAllForeign have an output taken asList(): hAll is
\* added to the node-list and provides the property `n` of its items,
\* hAllOnNode is added to the root, and hAllForeign is added to the
\* node-list but maps its list output to `out` of the root.  hLost and
\* hGhost, on the root, provide `out` from an input whose specifier leads
\* nowhere: p('../a') (the root has no parent) and p('ghost/q') (the root
\* has no node `ghost`).  hJoin, on the root, provides `joined` from `sum`
\* and `kept`: with hSum and hKeep, which both read `a`, it closes a diamond.
Handlers ==
  {"hSum", "hBack", "hMux", "hOut", "hExt", "hNode", "hItem", "hNames",
   "hUp", "hDown", "hKeep", "hFoo", "hAll", "hAllOnNode", "hAllForeign",
   "hLost", "hGhost", "hJoin"}

\* Handler objects, registered with addHandlerConstructor().
Stateful == {"hExt", "hNode", "hItem"}

\* The node a handler is registered on.
HandlerNode(h) ==
  IF h \in {"hNode", "hUp", "hDown", "hFoo"} THEN "child"
  ELSE IF h \in {"hItem", "hAll", "hAllForeign"} THEN "item"
  ELSE "root"

\* ------------------------------------------ relative property specifiers

\* The nodes of the model: the root, its optional node `child`, and the
\* items of its node-list `nodes`.  NoNode is where a path that leads
\* nowhere ends.
Nodes == {"root", "child", "item"}
NoNode == "none"

\* The shape the nodes are declared with: addNode('child') and
\* addNodeList('nodes') on the root.
Tree ==
  {[parent |-> "root", name |-> "child", node |-> "child"],
   [parent |-> "root", name |-> ListProp, node |-> "item"]}

\* A parent() that stays on the node.
StayPut(n) == n

\* node.parent(); the root has none.
Parent(n) ==
  IF \E e \in Tree : e.node = n
    THEN (CHOOSE e \in Tree : e.node = n).parent
    ELSE NoNode

\* The node (or the items of the node-list) that goes by name seg on n.
ChildNamed(n, seg) ==
  IF \E e \in Tree : e.parent = n /\ e.name = seg
    THEN (CHOOSE e \in Tree : e.parent = n /\ e.name = seg).node
    ELSE NoNode

\* The strings p() is called with, as the pieces a '/' separates:
\* 'a', '../a', '//a' (two empty pieces before the name), 'child/q',
\* 'nodes/n', '../../a', 'ghost/q' and '../child/q'.
SpecifierStrings ==
  {<<"a">>, <<"..", "a">>, <<"", "", "a">>, <<"child", "q">>,
   <<ListProp, "n">>, <<"..", "..", "a">>, <<"ghost", "q">>,
   <<"..", "child", "q">>}

\* p(string): the relative property specifier the fluent syntax creates.
\* The last piece is the name, the pieces before it are the path, and a
\* leading '//' is the one path segment '/'.
RelativeSpecifier(parts) ==
  LET n == Len(parts)
      absolute == n >= 3 /\ parts[1] = "" /\ parts[2] = ""
  IN [path |-> IF absolute THEN <<"/">> \o SubSeq(parts, 3, n - 1)
               ELSE SubSeq(parts, 1, n - 1),
      name |-> parts[n],
      as   |-> parts[n]]

\* Where a path leads from node n: '..' moves to the parent, '/' to the
\* root of the model, a name into the node of that name.
RECURSIVE Walk(_, _)
Walk(path, n) ==
  IF n = NoNode \/ path = <<>> THEN n
  ELSE LET seg == Head(path)
       IN Walk(Tail(path),
               IF seg = ".." THEN Parent(n)
               ELSE IF seg = "/" THEN "root"
               ELSE ChildNamed(n, seg))

\* props([s]).resolve(node): the property specifier of the relative
\* property specifier s; its node is NoNode when a segment leads nowhere.
resolve(s, n) == [node |-> Walk(s.path, n), prop |-> s.name]

\* The name a property goes by on its node.
NameOf(p) == IF p = "down0" THEN "down" ELSE IF p \in ItemProps THEN "n" ELSE p

\* The properties a property specifier stands for: one, or that of every
\* item when the node is the node-list.
PropsAt(ps) == {q \in Props : PropNode(q) = ps.node /\ NameOf(q) = ps.prop}

\* The handlers whose inputs are given with a path, and the strings they
\* are given with.
Relative == {"hUp", "hLost", "hGhost"}

InputSpecs(h) ==
  CASE h = "hUp" -> {<<"..", "down">>}
    [] h = "hLost" -> {<<"..", "a">>}
    [] h = "hGhost" -> {<<"ghost", "q">>}

\* The inputs of a handler given with a path, resolved against the node
\* the handler is registered on.
ResolvedInputs(h) ==
  UNION {PropsAt(resolve(RelativeSpecifier(str), HandlerNode(h))) :
           str \in InputSpecs(h)}

Inputs(h) ==
  CASE h = "hSum"  -> {"a", "b"}
    [] h = "hBack" -> {"sum"}
    [] h = "hMux"  -> {"b"}
    [] h = "hOut"  -> {"sum"}
    [] h = "hExt"  -> {}
    [] h = "hNode" -> {"q"}
    [] h = "hItem" -> {}
    [] h = "hNames" -> ItemProps
    [] h \in Relative -> ResolvedInputs(h)
    [] h = "hDown" -> {}
    [] h = "hKeep" -> {"a"}
    [] h = "hJoin" -> {"sum", "kept"}
    [] h = "hFoo" -> {"q"}
    [] h \in {"hAll", "hAllOnNode", "hAllForeign"} -> {}

\* The handlers with an input that is a property of the node-list's items,
\* taken asList().
AsListReaders == {"hNames"}

Outputs(h) ==
  CASE h = "hSum"  -> {"sum"}
    [] h = "hBack" -> {"a"}
    [] h = "hMux"  -> {"sum"}
    [] h = "hOut"  -> {"out"}
    [] h = "hExt"  -> {"data"}
    [] h = "hNode" -> {"r"}
    [] h = "hItem" -> {}
    [] h = "hNames" -> {"allNames"}
    [] h = "hUp" -> {"up"}
    [] h = "hDown" -> {"down"}
    [] h = "hKeep" -> {"kept"}
    [] h = "hJoin" -> {"joined"}
    [] h = "hFoo" -> {"f"}
    [] h = "hAll" -> ItemProps
    [] h \in {"hAllOnNode", "hAllForeign", "hLost", "hGhost"} -> {"out"}

\* The outputs of a handler that it takes asList().
ListOutputs(h) ==
  IF h \in {"hAll", "hAllOnNode", "hAllForeign"} THEN Outputs(h) ELSE {}

\* The handlers whose body looks at its `current` and `modified` maps; the
\* two maps of the other handlers are not represented.
UsesHistory == {"hKeep"}

\* The types `child` can be created with: its base type and two
\* specializations.
Tags == {"base", "foo", "bar"}

\* The type a handler was added to: child('foo').addHandler(hFoo).
HandlerTag(h) == IF h = "hFoo" THEN "foo" ELSE "base"

\* The public API a handler body may (wrongly) use while it is evaluated.
Mutators == {"set", "addNode", "removeNode", "create", "dispose"}
Accessors == {"get"}
ApiCalls == {"none"} \cup Mutators \cup Accessors

\* Errors of the seal-time (and create-time) verification.
StructuralErrors == {"StructuralError", "CircularDependencyError"}

\* ------------------------------------------------------------------ state

VARIABLES
  phase,        \* "Building" until seal() succeeds, then "Sealed"
  hook,         \* the beforechange listener: "off" (none registered) |
                \* "on" (to be called before the batch closes) | "fired"
  handlers,     \* the registered handlers, in registration order
  defined,      \* the properties provided with define()
  multiplexed,  \* the properties marked with allowMultiplexing()
  nodeDecl,     \* "none" | "enabled" (addNode) | "disabled" (addDisabledNode)
  listDecl,     \* whether addNodeList() declared the node-list
  order,        \* the evaluation order of the active handlers
  value,        \* the current value of every property
  nodeExists,   \* whether the optional node currently exists
  snapshot,     \* the values listeners were last notified of
  pendingHs,    \* the handlers that declined to supply output
  extData,      \* what the external source of hExt has delivered, or Null
  invoked,      \* the handlers ever invoked
  instances,    \* the owners (0: the optional node; n: item n) that have a
                \* live instance of their handler object
  inflight,     \* the owners to whose instance an external source has a
                \* message under way
  lifecycle,    \* the constructions, dispose() calls and detachments of the
                \* latest batch, in order
  discarded,    \* the owners whose callback the latest call discarded
  requests,     \* the enqueued set() calls: property -> value, or Null
  nodeReq,      \* the enqueued create()/dispose(): "none" | "create" | "dispose"
  listReq,      \* <<>>, or <<the node-list the enqueued addNode() and
                \* removeNode() calls leave>>
  reexec,       \* handlers due to run: reExecute() callers, initial evaluation
  mode,         \* "idle" | "handlers" (the handler phase of a batch)
  queue,        \* the handlers of the batch still to run, in order
  trigger,      \* what started the latest batch: "get" | "drain"
  getProp,      \* the property the get() that started the batch reads
  ran,          \* the handlers the latest batch has run, in order
  emitted,      \* the <<property, value>> pairs its handlers emitted
  preBatch,     \* the values, pending handlers and requests it started from
  lastError,    \* the error of the latest call or batch, or "none"
  lastRead,     \* what the latest get() returned, or Null
  delivered,    \* the properties whose listeners the latest drain called
  calls,        \* the listener callbacks the latest drain made, in order
  lastEvent,    \* the pending/resumed event the latest batch emitted
  warned,       \* whether a handler of the latest batch logged a warning
  template,     \* <<>>, or <<the handlers the sub-node of `child` inherited
                \* when it was defined as `child`>>
  previous,     \* handler |-> the `output` map of its latest invocation
  overridden,   \* the handler outputs set() has written since their
                \* handler last ran
  received,     \* the `current` and `modified` maps of the latest
                \* invocation of a handler that looks at them
  nodeType,     \* the type `child` was last created with
  listening,    \* the listener of the ready event: "none" when there is
                \* none, "waiting" until it is called, then "fired"
  readyCalls,   \* how many times that listener was called
  json,         \* what export() returned: <<property, value>> pairs
  stage,        \* "original" until the model is exported, "exported" once
                \* it is, "fresh" once a fresh model of the same shape has
                \* taken its place, "imported" once the export is set on it
  resolved,     \* <<>>, or <<the latest call of resolve(): the string, the
                \* node it was resolved against, and what it returned>>
  subs,         \* the subscriptions made with the message service, in
                \* order: subject, listener, and whether it is not disposed
  subscriber,   \* the fields of the Subscriber of the RateHandler
  subscription, \* the fields of a Subscription
  rateHandler,  \* the RateHandler: the `rate` of its output, the number of
                \* its invocations, whether dispose() was called
  lastCall,     \* the latest call made to the rate handler example
  ticket,       \* the TicketModel: its type and the number of its legs, as
                \* they are and as they will be when the batch has drained
  tenorRun      \* <<>>, or <<the latest invocation of multiLegTenorHandler>>

\* The declared shape of the model.
shape == <<handlers, defined, multiplexed, nodeDecl, listDecl>>

\* What the engine holds between batches.
store == <<order, value, nodeExists, snapshot, pendingHs, extData, invoked>>

\* The handler-object instances and what was last done to them.
life == <<instances, inflight, lifecycle, discarded>>

\* What is enqueued for the next batch.
pending == <<requests, nodeReq, listReq, reexec>>

\* What the latest call or batch reported; the next call starts afresh.
logs == <<trigger, getProp, ran, emitted, preBatch, lastError, lastRead,
          delivered, calls, lastEvent, warned>>

\* What the later sections of the model add to the above.
extras ==
  <<template, previous, overridden, received, nodeType, listening,
    readyCalls, json, stage>>

\* What the callers of the engine and the example handlers hold.
rates == <<subs, subscriber, subscription, rateHandler, lastCall>>

examples == <<resolved, rates, ticket, tenorRun>>

\* The engine's own state.
engine ==
  <<phase, hook, shape, store, life, pending, mode, queue, logs, extras>>

vars == <<engine, examples>>

\* ------------------------------------------------------- dependency graph

Registered == {handlers[i] : i \in 1..Len(handlers)}

\* The handlers of the set hs that provide property p.
Providers(p, hs) == {h \in hs : p \in Outputs(h)}

\* h consumes an output of g.
DependsOn(h, g) == Inputs(h) \cap Outputs(g) # {}

\* The handlers of the root, plus all those of the node when it exists,
\* whatever type they were added to.
Untyped(ex, t) == {h \in Registered : HandlerNode(h) # "child" \/ ex}

\* The handlers that take part in evaluation when the optional node exists
\* (ex) with type t, or does not: those of the root, plus those added to the
\* base type of the node and those added to its specialization t.
ActiveAs(ex, t) ==
  {h \in Registered :
     HandlerNode(h) # "child" \/ (ex /\ HandlerTag(h) \in {"base", t})}

\* Every registered handler takes part, whether the node exists or not.
AlwaysActive(ex) == Registered

\* The handlers that take part in evaluation when the optional node exists
\* (ex) or does not: those of the root, plus those of the node.
ActiveWhen(ex) == ActiveAs(ex, nodeType)

ActiveHandlers == ActiveWhen(nodeExists)

\* The first handler of the sequence reg that is in rem and consumes no
\* output of a handler still in rem; 0 when there is none.
FirstReady(reg, rem) ==
  LET ready == {i \in 1..Len(reg) :
                  /\ reg[i] \in rem
                  /\ \A g \in rem : ~DependsOn(reg[i], g)}
  IN IF ready = {} THEN 0 ELSE CHOOSE i \in ready : \A j \in ready : i <= j

\* The topological order of the handlers rem: providers before consumers,
\* ties broken by registration order.  Shorter than rem when rem has a cycle.
RECURSIVE TopoSort(_, _)
TopoSort(reg, rem) ==
  IF rem = {} THEN <<>>
  ELSE LET i == FirstReady(reg, rem)
       IN IF i = 0 THEN <<>>
          ELSE <<reg[i]>> \o TopoSort(reg, rem \ {reg[i]})

\* A cycle check that finds none.
Acyclic(reg, hs) == FALSE

HasCycle(reg, hs) == Len(TopoSort(reg, hs)) < Cardinality(hs)

\* The handlers hs as they were registered.
RegistrationOrder(reg, hs) == SelectSeq(reg, LAMBDA h : h \in hs)

\* The order the engine evaluates the handlers hs in.
EvaluationOrder(reg, hs) == TopoSort(reg, hs)

\* An input check that finds every input provided.
AllProvided(hs) == {}

\* An input of a handler of hs that neither a handler of hs nor define()
\* provides.
UnprovidedInputs(hs) ==
  {p \in UNION {Inputs(h) : h \in hs} :
     p \notin defined /\ Providers(p, hs) = {}}

\* An output check that lets any number of handlers provide a property.
AnyProviders(hs) == {}

\* An output more than one handler of hs provides without
\* allowMultiplexing().
DuplicateOutputs(hs) ==
  {p \in Props : Cardinality(Providers(p, hs)) > 1 /\ p \notin multiplexed}

\* A verification that lets any handler have list outputs.
AnyScope(hs) == {}

\* The handlers of hs whose list outputs are misused: the handler is not
\* added to a node-list, or a list output is not a property of the items of
\* the node-list it is added to.
ListMisuse(hs) ==
  {h \in hs :
     /\ ListOutputs(h) # {}
     /\ \/ HandlerNode(h) # "item"
        \/ \E p \in ListOutputs(h) : PropNode(p) # "item"}

\* A resolution that finds every path leading somewhere.
EverythingResolves(hs) == {}

\* The handlers of hs with an input whose path has a segment that leads
\* nowhere.
Unresolvable(hs) ==
  {h \in hs \cap Relative :
     \E str \in InputSpecs(h) :
       resolve(RelativeSpecifier(str), HandlerNode(h)).node = NoNode}

\* The verification of seal() and create(), in the documented order of its
\* checks: the error raised for the handlers hs, or "none".  The paths of
\* every registered handler are resolved first: the shape they are resolved
\* against is complete when seal() is called.
Verify(reg, hs) ==
  IF Unresolvable(Registered) # {} THEN "StructuralError"
  ELSE IF ListMisuse(hs) # {} THEN "StructuralError"
  ELSE IF UnprovidedInputs(hs) # {} THEN "StructuralError"
  ELSE IF DuplicateOutputs(Registered) # {} THEN "StructuralError"
  ELSE IF HasCycle(reg, hs) THEN "CircularDependencyError"
  ELSE "none"



\* --------------------------------------------- self-referential structures

\* What a handler reads: <<name, k>> is the property of that name on the
\* node k levels below (above, when k is negative) the handler's own.
LevelReads(h) ==
  IF h = "hUp" THEN {<<"down", -1>>}
  ELSE IF h = "hDown" THEN {<<"up", 1>>}
  ELSE {<<NameOf(p), 0>> : p \in Inputs(h)}

\* The levels, of the d that exist below the root, on which handler h has
\* an instance: the root is level 0, `child` level 1, and the leaves below
\* have the handlers `child` had when its sub-node was defined as it.
LevelsOf(h, d) ==
  IF HandlerNode(h) = "root" THEN {0}
  ELSE IF HandlerNode(h) = "child"
    THEN {k \in 1..d : k = 1 \/ (template # <<>> /\ h \in template[1])}
  ELSE {}

\* The handler instances of the realized graph with d levels.
Realized(d) ==
  {n \in Registered \X (0..d) : n[2] \in LevelsOf(n[1], d)}

\* Instance m provides something instance n reads.
Feeds(m, n) ==
  \E r \in LevelReads(n[1]) :
    /\ m[2] = n[2] + r[2]
    /\ r[1] \in {NameOf(p) : p \in Outputs(m[1])}

\* The instances of the realized graph that consume, directly or through
\* others, what an instance of seen provides; seen included.
RECURSIVE Consumers(_, _)
Consumers(seen, d) ==
  LET more == {n \in Realized(d) \ seen : \E m \in seen : Feeds(m, n)}
  IN IF more = {} THEN seen ELSE Consumers(seen \cup more, d)

\* A creation-time check that finds no cycle.
NeverCyclic(d) == FALSE

\* The realized graph with d levels has a cycle.
RealizedCycle(d) ==
  \E n \in Realized(d) : \E m \in Realized(d) :
    Feeds(n, m) /\ n \in Consumers({m}, d)

\* ------------------------------------------------- handler-object instances

\* The items of a node-list.
Items(s) == {s[i] : i \in 1..Len(s)}

\* The owners of handler-object instances, in the order they are dealt
\* with: the optional node (0), then the items.
OwnerSeq == [k \in 1..(MaxList + 1) |-> k - 1]

\* The owner of the messages under way to an instance of the optional node
\* that has been disposed of since they were sent.
FormerNode == MaxList + 1

\* The owners that have a handler object when the optional node exists or
\* not (ex) and the node-list is lst.
Owners(ex, lst) ==
  (IF ex /\ "hNode" \in Registered THEN {0} ELSE {})
    \cup (IF "hItem" \in Registered THEN Items(lst) ELSE {})

\* Disposals that take every live instance.
DisposeAll(ex, lst) == instances

\* The live instances whose owner is no longer there: to be disposed of.
Deactivated(ex, lst) == instances \ Owners(ex, lst)

\* The owners that have no live instance yet: one is to be constructed.
Activated(ex, lst) == Owners(ex, lst) \ instances

\* The events of kind for the owners os, in owner order.
EventsFor(kind, os) ==
  LET sel == SelectSeq(OwnerSeq, LAMBDA o : o \in os)
  IN [k \in 1..Len(sel) |-> <<kind, sel[k]>>]

\* The model becomes one where the optional node exists or not (ex) and
\* the node-list is lst: the instances of the owners that go have dispose()
\* called and are then detached with their outputs, and an instance is
\* constructed for each new owner.
Relive(ex, lst, log) ==
  LET off == Deactivated(ex, lst)
      on == Activated(ex, lst)
  IN /\ instances' = (instances \ off) \cup on
     /\ inflight' = IF 0 \in off \cap inflight
                      THEN (inflight \ {0}) \cup {FormerNode}
                      ELSE inflight
     /\ discarded' = {}
     /\ lifecycle' = log \o EventsFor("dispose", off)
                         \o EventsFor("detach", off)
                         \o EventsFor("construct", on)

\* ------------------------------------------------------------------- init

NoRequests == [p \in Props |-> Null]

\* The values, pending handlers, node existence and requests a batch
\* started from.
Before(val, pend, ex, req) ==
  [val |-> val, pend |-> pend, ex |-> ex, req |-> req]

\* JavaScript undefined, where a string is expected.
Undefined == "undefined"

\* A call of the rate handler example: what was called, with what, what
\* it returned or threw, and the callback it invoked (by the number of the
\* handler invocation that created it).
ExampleCall(op, arg, returned, thrown, callback) ==
  [op |-> op, arg |-> arg, returned |-> returned, thrown |-> thrown,
   callback |-> callback]

\* Nothing has called resolve() yet; a RateHandler and a Subscription have
\* been constructed (the latter without a subject) and not used; a
\* TicketModel has been constructed, with type 'outright' and the
\* addNode() of its first leg enqueued; multiLegTenorHandler has not run.
InitExamples ==
  /\ resolved = <<>>
  /\ subs = <<>>
  /\ subscriber = [held |-> 0, callback |-> 0]
  /\ subscription = [subject |-> Undefined, held |-> 0, data |-> Null]
  /\ rateHandler = [rate |-> Null, invoked |-> 0, disposed |-> FALSE]
  /\ lastCall = ExampleCall("none", Undefined, FALSE, "none", 0)
  /\ ticket = [type |-> "outright", willType |-> "outright",
               legs |-> 0, willLegs |-> 1]
  /\ tenorRun = <<>>

Init ==
  /\ phase = "Building"
  /\ hook = "off"
  /\ handlers = <<>>
  /\ defined = {}
  /\ multiplexed = {}
  /\ nodeDecl = "none"
  /\ listDecl = FALSE
  /\ order = <<>>
  /\ value = [p \in Props |-> IF p = ListProp THEN <<>> ELSE Null]
  /\ nodeExists = FALSE
  /\ snapshot = value
  /\ pendingHs = {}
  /\ extData = Null
  /\ invoked = {}
  /\ instances = {}
  /\ inflight = {}
  /\ lifecycle = <<>>
  /\ discarded = {}
  /\ requests = NoRequests
  /\ nodeReq = "none"
  /\ listReq = <<>>
  /\ reexec = {}
  /\ mode = "idle"
  /\ queue = <<>>
  /\ trigger = "drain"
  /\ getProp = "a"
  /\ ran = <<>>
  /\ emitted = {}
  /\ preBatch = Before(value, {}, FALSE, NoRequests)
  /\ lastError = "none"
  /\ lastRead = Null
  /\ delivered = {}
  /\ calls = <<>>
  /\ lastEvent = "none"
  /\ warned = FALSE
  /\ template = <<>>
  /\ previous = [h \in UsesHistory |-> {}]
  /\ overridden = {}
  /\ received = [current |-> {}, modified |-> {}]
  /\ nodeType = "base"
  /\ listening = "none"
  /\ readyCalls = 0
  /\ json = {}
  /\ stage = "original"
  /\ InitExamples

\* A call that starts no batch reports its error (or "none") and what it
\* returns (or Null); nothing else is left of the call or batch before it.
\* val is the values the call leaves, drop the owners whose callback it
\* discarded.
Told(err, read, val, drop) ==
  /\ lastError' = err
  /\ lastRead' = read
  /\ trigger' = "drain"
  /\ getProp' = "a"
  /\ ran' = <<>>
  /\ emitted' = {}
  /\ preBatch' = Before(val, pendingHs, nodeExists, NoRequests)
  /\ delivered' = {}
  /\ calls' = <<>>
  /\ lastEvent' = "none"
  /\ warned' = FALSE
  /\ lifecycle' = <<>>
  /\ discarded' = drop

Report(err, read, val) == Told(err, read, val, {})

\* A model whose shape is never locked down.
Thawed == FALSE

\* seal() has locked the shape down.
Frozen == phase = "Sealed"

\* A declaration made after seal() is rejected and changes nothing.
Rejected ==
  /\ Report("SealedError", Null, value)
  /\ UNCHANGED <<examples, extras, phase, hook, instances, inflight, shape, store, pending, mode, queue>>

\* ------------------------------------------------------- the building API

\* addHandler(h) / addHandlerConstructor(h): h joins the registration order.
Register(h) ==
  /\ mode = "idle"
  /\ IF Frozen THEN Rejected
     ELSE /\ h \notin Registered
          /\ Len(handlers) < MaxHandlers
          /\ HandlerNode(h) = "child" => nodeDecl # "none"
          /\ HandlerNode(h) = "item" => listDecl
          /\ handlers' = Append(handlers, h)
          /\ Report("none", Null, value)
          /\ UNCHANGED <<examples, extras, phase, hook, instances, inflight, defined, multiplexed, nodeDecl, listDecl,
                         store, pending, mode, queue>>

addHandler(h) == h \notin Stateful /\ Register(h)

addHandlerConstructor(h) == h \in Stateful /\ Register(h)

\* define(p, value): a property no handler needs to provide.
define(p) ==
  /\ mode = "idle"
  /\ IF Frozen THEN Rejected
     ELSE /\ p \notin defined
          /\ PropNode(p) = "child" => nodeDecl # "none"
          /\ defined' = defined \cup {p}
          /\ value' = [value EXCEPT ![p] = DefVal(p)]
          /\ snapshot' = [snapshot EXCEPT ![p] = DefVal(p)]
          /\ Report("none", Null, [value EXCEPT ![p] = DefVal(p)])
          /\ UNCHANGED <<examples, extras, phase, hook, instances, inflight, handlers, multiplexed, nodeDecl, listDecl,
                         order, nodeExists, pendingHs, extData, invoked,
                         pending, mode, queue>>

\* allowMultiplexing(p): p may have several providing handlers.
allowMultiplexing(p) ==
  /\ mode = "idle"
  /\ IF Frozen THEN Rejected
     ELSE /\ p \notin multiplexed
          /\ multiplexed' = multiplexed \cup {p}
          /\ Report("none", Null, value)
          /\ UNCHANGED <<examples, extras, phase, hook, instances, inflight, handlers, defined, nodeDecl, listDecl,
                         store, pending, mode, queue>>

\* addNode('child') / addDisabledNode('child').
DeclareNode(kind) ==
  /\ mode = "idle"
  /\ IF Frozen THEN Rejected
     ELSE /\ nodeDecl = "none"
          /\ nodeDecl' = kind
          /\ Report("none", Null, value)
          /\ UNCHANGED <<examples, extras, phase, hook, instances, inflight, handlers, defined, multiplexed, listDecl,
                         store, pending, mode, queue>>

addNode == DeclareNode("enabled")

addDisabledNode == DeclareNode("disabled")

\* nodes.define('n', value): every item of the node-list has the property
\* `n`.
defineItems ==
  /\ mode = "idle"
  /\ IF Frozen THEN Rejected
     ELSE /\ listDecl
          /\ ItemProps \cap defined = {}
          /\ defined' = defined \cup ItemProps
          /\ Report("none", Null, value)
          /\ UNCHANGED <<examples, extras, phase, hook, instances, inflight, handlers,
                         multiplexed, nodeDecl, listDecl, store, pending,
                         mode, queue>>

\* child.addDisabledNode('child') and child.child.defineAs(child): the
\* sub-node of `child` has the shape of `child`, its handlers as they are now
\* and its sub-node included.
defineAs ==
  /\ mode = "idle"
  /\ IF Frozen THEN Rejected
     ELSE /\ nodeDecl # "none"
          /\ template = <<>>
          /\ template' = <<{h \in Registered : HandlerNode(h) = "child"}>>
          /\ Report("none", Null, value)
          /\ UNCHANGED <<examples, previous, overridden, received, nodeType, listening,
                         readyCalls, json, stage, phase, hook, instances, inflight, shape, store,
                         pending, mode, queue>>

\* addNodeList('nodes').
addNodeList ==
  /\ mode = "idle"
  /\ IF Frozen THEN Rejected
     ELSE /\ ~listDecl
          /\ listDecl' = TRUE
          /\ Report("none", Null, value)
          /\ UNCHANGED <<examples, extras, phase, hook, instances, inflight, handlers, defined, multiplexed, nodeDecl,
                         store, pending, mode, queue>>

\* seal(): verifies the model and, when it passes, locks the shape down,
\* fixes the evaluation order and leaves every active handler due to run.
\* The handlers of a disabled node are verified when the node is created.
seal ==
  /\ mode = "idle"
  /\ IF Frozen
       THEN /\ Report("AlreadySealedError", Null, value)
            /\ UNCHANGED <<examples, extras, phase, hook, instances, inflight, shape, store, pending, mode, queue>>
       ELSE LET ex == nodeDecl = "enabled"
                hs == ActiveWhen(ex)
                err == Verify(handlers, hs)
            IN IF err # "none"
                 THEN /\ Report(err, Null, value)
                      /\ UNCHANGED <<examples, extras, phase, hook, instances, inflight, shape, store, pending, mode,
                                     queue>>
                 ELSE /\ phase' = "Sealed"
                      /\ order' = EvaluationOrder(handlers, hs)
                      /\ nodeExists' = ex
                      /\ reexec' = hs
                      /\ lastError' = "none"
                      /\ lastRead' = Null
                      /\ trigger' = "drain"
                      /\ getProp' = "a"
                      /\ ran' = <<>>
                      /\ emitted' = {}
                      /\ preBatch' = Before(value, pendingHs, ex, NoRequests)
                      /\ delivered' = {}
                      /\ calls' = <<>>
                      /\ lastEvent' = "none"
                      /\ warned' = FALSE
                      /\ Relive(ex, value[ListProp], <<>>)
                      /\ UNCHANGED <<examples, extras, hook, shape, value, snapshot, pendingHs,
                                     extData, invoked, requests, nodeReq,
                                     listReq, mode, queue>>

\* ------------------------------------------------------------ the batch

\* Something is enqueued: the next drain has a batch to evaluate.
Dirty ==
  \/ requests # NoRequests
  \/ nodeReq # "none"
  \/ listReq # <<>>
  \/ reexec # {}

\* Changes have been made that listeners have not been told of.
Owed == value # snapshot

\* A handler has declined to supply its output: the incoherent state.
Incoherent == pendingHs # {}

\* The number of requests enqueued.
PendingCount ==
  Cardinality({p \in Props : requests[p] # Null})
    + (IF nodeReq = "none" THEN 0 ELSE 1)
    + Len(listReq)

\* The node-list once the enqueued addNode()/removeNode() calls are applied.
WillList == IF listReq = <<>> THEN value[ListProp] ELSE listReq[1]

\* The identities of the items still referred to: by a list the model or
\* its listeners hold, or by a message under way.
UsedItems ==
  Items(value[ListProp]) \cup Items(snapshot[ListProp])
    \cup Items(WillList) \cup Items(preBatch.val[ListProp])
    \cup inflight

\* Whether one more item can be built.
CanBuild == ItemIds \ UsedItems # {}

\* The identity of a newly built item: one that nothing still refers to.
FreshItem ==
  CHOOSE x \in ItemIds \ UsedItems : \A y \in ItemIds \ UsedItems : x <= y

\* A node-list whose new item is put behind the item at index i.
InsertAfter(s, i, x) ==
  IF i >= Len(s) THEN Append(s, x)
  ELSE SubSeq(s, 1, i + 1) \o <<x>> \o SubSeq(s, i + 2, Len(s))

\* s with x as its item of index i (indices start at 0): the items from
\* index i on move up by one.
InsertAt(s, i, x) == SubSeq(s, 1, i) \o <<x>> \o SubSeq(s, i + 1, Len(s))

\* s without its item of index i: the items behind it move down by one.
RemoveAt(s, i) == SubSeq(s, 1, i) \o SubSeq(s, i + 2, Len(s))

\* Whether the optional node exists once the enqueued create()/dispose()
\* has been applied.
WillExist ==
  IF nodeReq = "create" THEN TRUE
  ELSE IF nodeReq = "dispose" THEN FALSE
  ELSE nodeExists

\* exists() of the optional node: the enqueued create() or dispose() counts.
exists == WillExist

\* Only the handlers of seeds: those that consume their outputs are left out.
DirectOnly(seeds, hs) == seeds

\* The handlers of hs that consume, directly or through other handlers of
\* hs, an output of a handler of seeds; seeds included.
RECURSIVE Dependents(_, _)
Dependents(seeds, hs) ==
  LET more == {h \in hs \ seeds : \E g \in seeds : DependsOn(h, g)}
  IN IF more = {} THEN seeds ELSE Dependents(seeds \cup more, hs)

\* A batch that re-runs nothing.
Unaffected(hs) == {}

\* A batch that re-runs every active handler.
EveryHandler(hs) == hs

\* The handlers a batch must re-run: those reading a written property,
\* those due to run, those of a node being created or of items being
\* added, and their dependents.
Affected(hs) ==
  LET written == {p \in Props : requests[p] # Null}
      seeds == {h \in hs :
                  \/ Inputs(h) \cap written # {}
                  \/ Outputs(h) \cap written # {}
                  \/ h \in reexec
                  \/ (nodeReq = "create" /\ HandlerNode(h) = "child")
                  \/ (HandlerNode(h) = "item"
                        /\ Items(WillList) \ Items(value[ListProp]) # {})
                  \/ (h \in AsListReaders /\ WillList # value[ListProp])}
  IN Dependents(seeds, hs)

\* The number of leaves below `child`.
Deeper == IF value[TreeProp] = Null THEN 0 ELSE value[TreeProp]

\* The number of leaves below `child` once the enqueued requests are applied.
WillDeeper ==
  IF requests[TreeProp] = Null THEN Deeper ELSE requests[TreeProp]

\* The item whose property p is.
ItemOf(p) == CHOOSE x \in ItemIds : ItemProp(x) = p

\* The value of the item property p once the enqueued requests are applied:
\* none when the item is not in the list, the value written to it, the
\* defined value when the item is new.
AppliedToItem(p) ==
  IF ItemOf(p) \notin Items(WillList) THEN Null
  ELSE IF requests[p] # Null THEN requests[p]
  ELSE IF ItemOf(p) \notin Items(value[ListProp])
    THEN (IF p \in defined THEN ItemDefault ELSE Null)
  ELSE value[p]

\* The values once the enqueued requests are applied.
Applied ==
  [p \in Props |->
     IF p \in ItemProps THEN AppliedToItem(p)
     ELSE IF p = TreeProp
       THEN (IF WillExist /\ WillDeeper > 0 THEN WillDeeper ELSE Null)
     ELSE IF requests[p] # Null THEN requests[p]
     ELSE IF p = ListProp THEN WillList
     ELSE IF nodeReq = "dispose" /\ p \in {"r", "f"} THEN Null
     ELSE value[p]]

\* A batch starts: the requests are applied and the implicated handlers are
\* queued in evaluation order.  trig is what drained it, p what a get() reads.
BeginBatch(trig, p) ==
  LET hs == ActiveWhen(WillExist)
      ord == EvaluationOrder(handlers, hs)
      aff == Affected(hs)
  IN /\ preBatch' = Before(value, pendingHs, nodeExists, requests)
     /\ value' = Applied
     /\ nodeExists' = WillExist
     /\ order' = ord
     /\ queue' = SelectSeq(ord, LAMBDA h : h \in aff)
     /\ requests' = NoRequests
     /\ nodeReq' = "none"
     /\ listReq' = <<>>
     /\ reexec' = {}
     /\ ran' = <<>>
     /\ emitted' = {}
     /\ mode' = "handlers"
     /\ trigger' = trig
     /\ getProp' = p
     /\ delivered' = {}
     /\ calls' = <<>>
     /\ lastError' = "none"
     /\ lastEvent' = "none"
     /\ lastRead' = Null
     /\ warned' = FALSE
     /\ Relive(WillExist, WillList, <<>>)
     /\ UNCHANGED <<examples, extras, phase, hook, shape, snapshot, pendingHs, extData, invoked>>

\* An array of the items' values that starts with the last item.
LastFirst(lst, val) ==
  [k \in 1..Len(lst) |-> val[ItemProp(lst[Len(lst) + 1 - k])]]

\* The array a handler receives for the property `n` of the items taken
\* asList(): the value of `n` on each item of the list lst, in list order.
AsList(lst, val) == [k \in 1..Len(lst) |-> val[ItemProp(lst[k])]]

\* names.join(): the elements of the array, one decimal digit each, in
\* order.
RECURSIVE Join(_)
Join(arr) ==
  IF arr = <<>> THEN 0
  ELSE 10 * Join(SubSeq(arr, 1, Len(arr) - 1)) + arr[Len(arr)]

\* A `current` map that holds the values the outputs of h have now.
LatestValues(h) == {<<p, value[p]>> : p \in Outputs(h)}

\* The `current` map handler h is invoked with: the `output` map of its
\* latest invocation, empty when there was none.
CurrentOf(h) == previous[h]

\* The `modified` map handler h is invoked with: its outputs that set() has
\* written since it last ran.
ModifiedOf(h) == overridden \cap Outputs(h)

\* What handler h computes from the current values: whether it supplies its
\* output (ok), and the <<property, value>> pairs it writes to `output`.
HandlerResult(h) ==
  CASE h = "hSum"  -> [ok |-> TRUE,
                       out |-> {<<"sum", value["a"] + value["b"]>>}]
    [] h = "hBack" -> [ok |-> TRUE, out |-> {<<"a", value["sum"]>>}]
    [] h = "hMux"  -> [ok |-> TRUE,
                       out |-> IF value["b"] >= 10
                                 THEN {<<"sum", value["b"] + value["b"]>>}
                                 ELSE {}]
    [] h = "hOut"  -> [ok |-> TRUE, out |-> {<<"out", value["sum"]>>}]
    [] h = "hExt"  -> IF extData = Null
                        THEN [ok |-> FALSE, out |-> {}]
                        ELSE [ok |-> TRUE, out |-> {<<"data", extData>>}]
    [] h = "hNode" -> [ok |-> TRUE, out |-> {<<"r", value["q"]>>}]
    [] h = "hItem" -> [ok |-> TRUE, out |-> {}]
    [] h = "hAll" ->
         [ok |-> TRUE,
          out |-> {<<ItemProp(x), ItemDefault>> : x \in Items(value[ListProp])}]
    [] h \in {"hAllOnNode", "hAllForeign"} ->
         [ok |-> TRUE, out |-> {<<"out", ItemDefault>>}]
    [] h = "hFoo" -> [ok |-> TRUE, out |-> {<<"f", value["q"]>>}]
    [] h = "hKeep" ->
         [ok |-> TRUE,
          out |-> {<<"kept", IF "kept" \in ModifiedOf(h) THEN value["kept"]
                             ELSE value["a"]>>}]
    [] h = "hUp" -> [ok |-> TRUE, out |-> {<<"up", value["down0"]>>}]
    [] h \in {"hLost", "hGhost"} -> [ok |-> TRUE, out |-> {<<"out", 0>>}]
    [] h = "hJoin" ->
         [ok |-> TRUE, out |-> {<<"joined", value["sum"] + value["kept"]>>}]
    [] h = "hDown" -> [ok |-> TRUE, out |-> {<<"down", 0>>}]
    [] h = "hNames" ->
         [ok |-> TRUE,
          out |-> {<<"allNames", Join(AsList(value[ListProp], value))>>}]

\* A comparison that finds any two emitted values the same.
Agreeing(out) == FALSE

\* Two providers of one property emitted unequal values in this batch.
Conflict(out) ==
  \E e \in out : \E f \in emitted : e[1] = f[1] /\ e[2] # f[2]

\* A write that leaves the values as they are.
Unwritten(out) == value

\* The values with the pairs of out written.
Written(out) ==
  [p \in Props |->
     IF \E e \in out : e[1] = p
       THEN (CHOOSE e \in out : e[1] = p)[2]
       ELSE value[p]]

\* A handler phase that lets a handler body make any API call.
HandlerPhaseOpen(api) == TRUE

\* Whether the handler phase lets a handler body make this API call.
HandlerPhaseAllows(api) == api \notin Mutators

\* The values an aborted batch leaves: those before the batch.
RolledBack == preBatch.val

\* The pending/resumed event of a batch that started with the handlers
\* `before` pending and ends with `after` pending.
ModelEvent(before, after) ==
  IF before = {} /\ after # {} THEN "pending"
  ELSE IF before # {} /\ after = {} THEN "resumed"
  ELSE "none"

\* A listener of the ready event that is called at every resumption.
FiresAtEveryResume(st, ev) == st # "none" /\ ev = "resumed"

\* The listener of the ready event, in state st, is called when the model
\* emits ev: it is waiting and the model has resumed.
ReadyFires(st, ev) == st = "waiting" /\ ev = "resumed"

\* The model emits ev: the listener of the ready event is called if it is
\* due.
Announce(ev) ==
  /\ listening' = IF ReadyFires(listening, ev) THEN "fired" ELSE listening
  /\ readyCalls' = IF ReadyFires(listening, ev) THEN readyCalls + 1
                    ELSE readyCalls
  /\ UNCHANGED <<examples, template, previous, overridden, received, nodeType, json,
                 stage>>

\* The batch fails with err while handler h runs: nothing of it is kept, and
\* its handlers, none of which produced a valid output, stay due to run.
Abort(h, err) ==
  /\ value' = RolledBack
  /\ pendingHs' = preBatch.pend
  /\ nodeExists' = preBatch.ex
  /\ order' = EvaluationOrder(handlers, ActiveWhen(preBatch.ex))
  /\ queue' = <<>>
  /\ mode' = "idle"
  /\ ran' = Append(ran, h)
  /\ invoked' = invoked \cup {h}
  /\ lastError' = err
  /\ reexec' = reexec \cup {ran[i] : i \in 1..Len(ran)}
                     \cup {queue[i] : i \in 1..Len(queue)}
  /\ Relive(preBatch.ex, preBatch.val[ListProp], lifecycle)
  /\ UNCHANGED <<examples, extras, phase, hook, shape, snapshot, extData, requests, nodeReq,
                 listReq,
                 trigger, getProp, emitted, preBatch, lastRead, delivered,
                 calls,
                 lastEvent, warned>>

\* The next handler of the batch is invoked; api is the public API call its
\* body makes, "none" for a well-behaved handler.
RunHandler(api) ==
  /\ mode = "handlers"
  /\ queue # <<>>
  /\ LET h == Head(queue)
         res == HandlerResult(h)
     IN IF ~HandlerPhaseAllows(api)
          THEN Abort(h, "RuntimeAccessError")
        ELSE IF res.ok /\ Conflict(res.out)
          THEN Abort(h, "MultiplexConflictError")
        ELSE
          /\ value' = IF res.ok THEN Written(res.out) ELSE value
          /\ emitted' = IF res.ok THEN emitted \cup res.out ELSE emitted
          /\ pendingHs' = IF res.ok THEN pendingHs \ {h}
                          ELSE pendingHs \cup {h}
          /\ queue' = Tail(queue)
          /\ ran' = Append(ran, h)
          /\ invoked' = invoked \cup {h}
          /\ warned' = (warned \/ api \in Accessors)
          /\ lastRead' = IF api \in Accessors
                           THEN value[CHOOSE p \in Outputs(h) : TRUE]
                           ELSE lastRead
          /\ requests' = IF api = "set"
                           THEN [requests EXCEPT !["b"] = 10]
                           ELSE requests
          /\ nodeReq' = IF api \in {"create", "dispose"} THEN api
                        ELSE nodeReq
          /\ listReq' = IF api = "addNode" /\ CanBuild
                          THEN <<InsertAt(WillList, Len(WillList), FreshItem)>>
                        ELSE IF api = "removeNode" /\ WillList # <<>>
                          THEN <<RemoveAt(WillList, Len(WillList) - 1)>>
                        ELSE listReq
          /\ received' = IF h \in UsesHistory
                            THEN [current |-> CurrentOf(h),
                                  modified |-> ModifiedOf(h)]
                            ELSE received
          /\ previous' = IF h \in UsesHistory /\ res.ok
                            THEN [previous EXCEPT ![h] = res.out]
                            ELSE previous
          /\ overridden' = overridden \ Outputs(h)
          /\ UNCHANGED <<examples, template, nodeType, listening, readyCalls, json,
                         stage, phase, hook,
                         life, shape, order, nodeExists, snapshot, extData,
                         reexec, mode, trigger, getProp, preBatch, lastError,
                         delivered, calls, lastEvent>>

\* Listeners that may be called at any point of the batch.
NotifyAnytime == TRUE

\* Listeners are called only once every implicated handler has run.
CanNotify == queue = <<>>

\* Every property whose value differs from what listeners last saw.
Differing == {p \in Props : value[p] # snapshot[p]}

\* Listeners told of every property the batch wrote or a handler emitted,
\* whether or not its value is another.
Touched ==
  {p \in Props : preBatch.req[p] # Null} \cup {e[1] : e \in emitted}

\* The properties whose listeners a drain calls: those whose value differs
\* from what listeners last saw.  None while the model is incoherent.
Changed == IF Incoherent THEN {} ELSE {p \in Props : value[p] # snapshot[p]}

\* Listeners that are told but whose view is never brought up to date.
Unseen == snapshot

\* What listeners have seen once a drain has told them: the current values,
\* unless the model is incoherent and they were told nothing.
Seen == IF Incoherent THEN snapshot ELSE value

\* The order listeners are called in: that of the properties' declaration.
PropOrder ==
  <<"a", "b", "sum", "out", "data", "allNames", "down0", "kept", "joined",
    "q", "r", "f", "up", "down", TreeProp, ListProp>>
    \o [x \in 1..MaxList |-> ItemProp(x)]

\* One callback per value a handler of the batch emitted.
EmissionCalls(ps) ==
  LET Of(h) == IF HandlerResult(h).ok /\ HandlerResult(h).out # {}
                 THEN <<<<"change", CHOOSE p \in Outputs(h) : TRUE>>>>
                 ELSE <<>>
      F[i \in 0..Len(ran)] == IF i = 0 THEN <<>> ELSE F[i - 1] \o Of(ran[i])
  IN F[Len(ran)]

\* The callbacks that tell listeners of the properties ps: a change event
\* per property, a mutation event for the node-list.
ChangeCalls(ps) ==
  LET Call(p) == <<IF p = ListProp THEN "mutation" ELSE "change", p>>
      F[i \in 0..Len(PropOrder)] ==
        IF i = 0 THEN <<>>
        ELSE IF PropOrder[i] \in ps THEN Append(F[i - 1], Call(PropOrder[i]))
        ELSE F[i - 1]
  IN F[Len(PropOrder)]

\* The properties set() may write: constants no handler provides, and the
\* outputs of a handler that looks at its `modified` map.
Settable ==
  {p \in defined \cap {"a", "b"} : Providers(p, Registered) = {}}
    \cup UNION {Outputs(h) : h \in UsesHistory \cap Registered}
    \cup {p \in defined \cap ItemProps :
            \E x \in Items(value[ListProp]) \cap Items(WillList) :
              p = ItemProp(x)}

\* A batch that closes without waiting for the beforechange listener.
HookSkipped == TRUE

\* The beforechange listener, if one is registered, has been called and has
\* let the batch close.
HookDone == hook # "on"

\* The API calls a beforechange listener makes; "none" lets the batch close.
HookCalls == {"none", "set", "addNode", "removeNode"}

\* The beforechange callback, as listeners are called with the root node.
BeforeChangeCall == <<"beforechange", "model">>

\* How often the beforechange listener has been called in this batch.
Rounds == Cardinality({k \in 1..Len(calls) : calls[k] = BeforeChangeCall})

\* model.on('beforechange', listener): the listener is registered.
onBeforeChange ==
  /\ phase = "Sealed"
  /\ mode = "idle"
  /\ hook = "off"
  /\ hook' = "on"
  /\ Report("none", Null, value)
  /\ UNCHANGED <<examples, extras, phase, instances, inflight, shape, store, pending, mode, queue>>

\* A listener that is called again whatever it did.
HookStaysOn(enqueued) == "on"

\* Whether the beforechange listener is called again before the batch
\* closes: it is when its call enqueued something, which the handlers react
\* to first; otherwise the batch closes.
HookAfter(enqueued) == IF enqueued THEN "on" ELSE "fired"

\* The handlers of the batch have run: the beforechange listener is called,
\* before any change or mutation listener.  act is the API call it makes:
\* a set(), addNode() or removeNode() is enqueued and keeps the batch open.
BeforeChange(act) ==
  /\ mode = "handlers"
  /\ trigger = "drain"
  /\ queue = <<>>
  /\ hook = "on"
  /\ ~Dirty
  /\ calls' = Append(calls, BeforeChangeCall)
  /\ IF act = "none"
       THEN /\ hook' = HookAfter(FALSE)
            /\ UNCHANGED <<pending, lastError>>
     ELSE IF Incoherent
       THEN /\ hook' = HookAfter(FALSE)
            /\ lastError' = "RuntimeAccessError"
            /\ UNCHANGED pending
     ELSE /\ Rounds < MaxRounds
          /\ act = "set" => "b" \in Settable
          /\ act = "addNode" => listDecl /\ Len(WillList) < MaxList /\ CanBuild
          /\ act = "removeNode" => listDecl /\ WillList # <<>>
          /\ hook' = HookAfter(TRUE)
          /\ requests' = IF act = "set" THEN [requests EXCEPT !["b"] = 10]
                         ELSE requests
          /\ listReq' = IF act = "addNode"
                          THEN <<InsertAt(WillList, Len(WillList), FreshItem)>>
                        ELSE IF act = "removeNode"
                          THEN <<RemoveAt(WillList, Len(WillList) - 1)>>
                        ELSE listReq
          /\ UNCHANGED <<nodeReq, reexec, lastError>>
  /\ UNCHANGED <<examples, extras, phase, life, shape, store, mode, queue, trigger, getProp, ran,
                 emitted, preBatch, lastRead, delivered, lastEvent, warned>>

\* What a beforechange listener enqueued is applied to the open batch and
\* the handlers it implicates are queued: they run before the batch closes,
\* and what they emitted before no longer counts.
Reenter ==
  /\ mode = "handlers"
  /\ trigger = "drain"
  /\ queue = <<>>
  /\ Dirty
  /\ LET hs == ActiveWhen(WillExist)
         ord == EvaluationOrder(handlers, hs)
         aff == Affected(hs)
     IN /\ value' = Applied
        /\ nodeExists' = WillExist
        /\ order' = ord
        /\ queue' = SelectSeq(ord, LAMBDA h : h \in aff)
        /\ emitted' = {e \in emitted :
                         e[1] \notin UNION {Outputs(h) : h \in aff}}
  /\ requests' = NoRequests
  /\ nodeReq' = "none"
  /\ listReq' = <<>>
  /\ reexec' = {}
  /\ Relive(WillExist, WillList, lifecycle)
  /\ UNCHANGED <<examples, extras, phase, hook, shape, snapshot, pendingHs, extData, invoked,
                 mode, trigger, getProp, ran, preBatch, lastError, lastRead,
                 delivered, calls, lastEvent, warned>>

\* The batch closes: change and mutation listeners are called, together.
Notify ==
  /\ mode = "handlers"
  /\ trigger = "drain"
  /\ CanNotify
  /\ HookDone
  /\ hook' = IF hook = "fired" THEN "on" ELSE hook
  /\ delivered' = Changed
  /\ calls' = calls \o ChangeCalls(Changed)
  /\ snapshot' = Seen
  /\ lastEvent' = ModelEvent(preBatch.pend, pendingHs)
  /\ Announce(ModelEvent(preBatch.pend, pendingHs))
  /\ mode' = IF queue = <<>> THEN "idle" ELSE mode
  /\ UNCHANGED <<phase, life, shape, order, value, nodeExists, pendingHs, extData,
                 invoked, pending, queue, trigger, getProp, ran, emitted,
                 preBatch, lastError, lastRead, warned>>

\* The handler phase a get() started is over: the get() returns the value,
\* or fails when a handler left the model incoherent.  Listeners wait for
\* the drain.
GetReturns ==
  /\ mode = "handlers"
  /\ trigger = "get"
  /\ queue = <<>>
  /\ mode' = "idle"
  /\ lastEvent' = ModelEvent(preBatch.pend, pendingHs)
  /\ Announce(ModelEvent(preBatch.pend, pendingHs))
  /\ IF Incoherent
       THEN lastError' = "RuntimeAccessError" /\ lastRead' = Null
       ELSE lastError' = "none" /\ lastRead' = value[getProp]
  /\ UNCHANGED <<phase, hook, life, shape, store, pending, queue, trigger, getProp, ran,
                 emitted, preBatch, delivered, calls, warned>>

\* ------------------------------------------------------ the run-time API

\* A call made while the model is incoherent fails and changes nothing.
RejectedIncoherent ==
  /\ Report("RuntimeAccessError", Null, value)
  /\ UNCHANGED <<examples, extras, phase, hook, instances, inflight, shape, store, pending, mode, queue>>

\* A set(p, v) that writes the value there and then.
setNow(p, v) ==
  /\ phase = "Sealed"
  /\ mode = "idle"
  /\ p \in Settable
  /\ value' = [value EXCEPT ![p] = v]
  /\ Report("none", Null, value')
  /\ UNCHANGED <<examples, extras, phase, hook, instances, inflight, shape, order,
                 nodeExists, snapshot, pendingHs, extData, invoked, pending,
                 mode, queue>>

\* set(p, v): the write is enqueued; the latest write to p wins.
set(p, v) ==
  /\ phase = "Sealed"
  /\ mode = "idle"
  /\ p \in Settable
  /\ IF Incoherent THEN RejectedIncoherent
     ELSE /\ requests[p] # Null \/ PendingCount < MaxPending
          /\ requests' = [requests EXCEPT ![p] = v]
          /\ overridden' =
               IF Providers(p, Registered) # {} THEN overridden \cup {p}
               ELSE overridden
          /\ Report("none", Null, value)
          /\ UNCHANGED <<examples, template, previous, received, nodeType, listening,
                         readyCalls, json, stage, phase, hook,
                         instances, inflight, shape, store, nodeReq, listReq,
                         reexec, mode, queue>>

\* get(p): the pending batch, if any, has its handlers run first and the
\* value is returned once they have (GetReturns).
get(p) ==
  /\ phase = "Sealed"
  /\ mode = "idle"
  /\ IF Incoherent THEN RejectedIncoherent
     ELSE IF Dirty THEN BeginBatch("get", p)
     ELSE /\ lastRead' = value[p]
          /\ lastError' = "none"
          /\ trigger' = "get"
          /\ getProp' = p
          /\ ran' = <<>>
          /\ emitted' = {}
          /\ preBatch' = Before(value, pendingHs, nodeExists, NoRequests)
          /\ delivered' = {}
          /\ calls' = <<>>
          /\ lastEvent' = "none"
          /\ warned' = FALSE
          /\ lifecycle' = <<>>
          /\ discarded' = {}
          /\ UNCHANGED <<examples, extras, phase, hook, instances, inflight, shape, store, pending, mode, queue>>

\* A drain: the pending batch is evaluated and listeners are then notified;
\* with nothing enqueued, listeners are told of what they are still owed.
Drain ==
  /\ phase = "Sealed"
  /\ mode = "idle"
  /\ IF Dirty THEN BeginBatch("drain", "a")
     ELSE /\ delivered' = Changed
          /\ calls' = ChangeCalls(Changed)
          /\ snapshot' = Seen
          /\ lastError' = "none"
          /\ lastRead' = Null
          /\ trigger' = "drain"
          /\ getProp' = "a"
          /\ ran' = <<>>
          /\ emitted' = {}
          /\ preBatch' = Before(value, pendingHs, nodeExists, NoRequests)
          /\ lastEvent' = "none"
          /\ warned' = FALSE
          /\ UNCHANGED <<examples, extras, phase, hook, life, shape, order, value, nodeExists, pendingHs,
                         extData, invoked, pending, mode, queue>>

\* notifyListeners(): drains now.
notifyListeners == Drain

\* The call stack that enqueued something has exited: the deferred drain.
asap == (Dirty \/ Owed) /\ Drain

\* create(t) of the optional node: the handlers of the node and the graph
\* the creation realizes are verified, and the creation is enqueued.  A node
\* whose dispose() is still enqueued is re-created with the type it has.
createAs(t) ==
  /\ phase = "Sealed"
  /\ mode = "idle"
  /\ nodeDecl # "none"
  /\ ~WillExist
  /\ nodeExists => t = nodeType
  /\ IF Incoherent THEN RejectedIncoherent
     ELSE LET flat == Verify(handlers, ActiveAs(TRUE, t))
              err == IF flat = "none" /\ RealizedCycle(1)
                       THEN "CircularDependencyError"
                       ELSE flat
          IN IF err # "none"
               THEN /\ Report(err, Null, value)
                    /\ UNCHANGED <<examples, extras, phase, hook, instances, inflight, shape, store, pending, mode, queue>>
               ELSE /\ nodeReq = "dispose" \/ PendingCount < MaxPending
                    /\ nodeReq' = IF nodeExists THEN "none" ELSE "create"
                    /\ nodeType' = t
                    /\ Report("none", Null, value)
                    /\ UNCHANGED <<examples, template, previous, overridden, received,
                                   listening, readyCalls, json, stage, phase, hook, instances, inflight, shape, store, requests, listReq,
                                   reexec, mode, queue>>

\* create() of the optional node, with its base type.
create == createAs("base")

\* dispose() of the optional node: enqueued.
dispose ==
  /\ phase = "Sealed"
  /\ mode = "idle"
  /\ nodeDecl # "none"
  /\ WillExist
  /\ IF Incoherent THEN RejectedIncoherent
     ELSE /\ nodeReq = "create" \/ PendingCount < MaxPending
          /\ nodeReq' = IF nodeExists THEN "dispose" ELSE "none"
          /\ Report("none", Null, value)
          /\ UNCHANGED <<examples, extras, phase, hook, instances, inflight, shape, store, requests, listReq, reexec,
                         mode, queue>>

\* create() of the next leaf below `child`, which exists: the graph the
\* creation realizes is verified, and the creation is enqueued.
createLeaf ==
  /\ phase = "Sealed"
  /\ mode = "idle"
  /\ template # <<>>
  /\ nodeExists /\ nodeReq = "none"
  /\ 1 + WillDeeper < MaxDepth
  /\ IF Incoherent THEN RejectedIncoherent
     ELSE IF RealizedCycle(2 + WillDeeper)
       THEN /\ Report("CircularDependencyError", Null, value)
            /\ UNCHANGED <<examples, extras, phase, hook, instances, inflight, shape,
                           store, pending, mode, queue>>
     ELSE /\ requests[TreeProp] # Null \/ PendingCount < MaxPending
          /\ requests' = [requests EXCEPT ![TreeProp] = WillDeeper + 1]
          /\ Report("none", Null, value)
          /\ UNCHANGED <<examples, extras, phase, hook, instances, inflight, shape,
                         store, nodeReq, listReq, reexec, mode, queue>>

\* dispose() of the lowest leaf below `child`: enqueued.
disposeLeaf ==
  /\ phase = "Sealed"
  /\ mode = "idle"
  /\ template # <<>>
  /\ nodeExists /\ nodeReq = "none"
  /\ WillDeeper > 0
  /\ IF Incoherent THEN RejectedIncoherent
     ELSE /\ requests[TreeProp] # Null \/ PendingCount < MaxPending
          /\ requests' = [requests EXCEPT ![TreeProp] = WillDeeper - 1]
          /\ Report("none", Null, value)
          /\ UNCHANGED <<examples, extras, phase, hook, instances, inflight, shape,
                         store, nodeReq, listReq, reexec, mode, queue>>

\* The index arguments of addNode() and removeNode(): <<>> when the call
\* gives none, <<i>> when it gives i.
Indexes == {<<>>} \cup {<<i>> : i \in 0..MaxList}

\* The index an addNode() call with the index argument ix adds at, on the
\* list s: the end by default.
AddIndex(ix, s) == IF ix = <<>> THEN Len(s) ELSE ix[1]

\* A removeNode() that removes the first item by default.
RemoveFirstByDefault(ix, s) == IF ix = <<>> THEN 0 ELSE ix[1]

\* The index a removeNode() call with the index argument ix removes at, on
\* the list s: that of the last item by default.
RemoveIndex(ix, s) == IF ix = <<>> THEN Len(s) - 1 ELSE ix[1]

\* nodes.addNode(i): a new item is added to the node-list at index i;
\* enqueued.
nodesAddNode(i) ==
  /\ phase = "Sealed"
  /\ mode = "idle"
  /\ listDecl
  /\ Len(WillList) < MaxList
  /\ CanBuild
  /\ i \in 0..Len(WillList)
  /\ IF Incoherent THEN RejectedIncoherent
     ELSE /\ listReq # <<>> \/ PendingCount < MaxPending
          /\ listReq' = <<InsertAt(WillList, i, FreshItem)>>
          /\ Report("none", Null, value)
          /\ UNCHANGED <<examples, extras, phase, hook, instances, inflight, shape, store, requests, nodeReq, reexec,
                         mode, queue>>

\* nodes.removeNode(i): the item at index i is removed from the node-list;
\* enqueued.
nodesRemoveNode(i) ==
  /\ phase = "Sealed"
  /\ mode = "idle"
  /\ listDecl
  /\ i \in 0..(Len(WillList) - 1)
  /\ IF Incoherent THEN RejectedIncoherent
     ELSE /\ listReq # <<>> \/ PendingCount < MaxPending
          /\ listReq' = <<RemoveAt(WillList, i)>>
          /\ Report("none", Null, value)
          /\ UNCHANGED <<examples, extras, phase, hook, instances, inflight, shape, store, requests, nodeReq, reexec,
                         mode, queue>>

\* on('ready', listener): the listener is called at once when the model is
\* ready, and waits for it to be otherwise.
onReady ==
  /\ phase = "Sealed"
  /\ mode = "idle"
  /\ listening = "none"
  /\ listening' = IF Incoherent THEN "waiting" ELSE "fired"
  /\ readyCalls' = IF Incoherent THEN readyCalls ELSE readyCalls + 1
  /\ Report("none", Null, value)
  /\ UNCHANGED <<examples, template, previous, overridden, received, nodeType, json,
                 stage, phase, hook, instances, inflight, shape, store, pending, mode,
                 queue>>

\* export(): the value of every property that has one, by name.
Export(val) ==
  {<<p, val[p]>> : p \in {q \in Props \ {ListProp} : val[q] # Null}}

\* The values of a model of this shape that has just been built.
FreshValues ==
  [p \in Props |-> IF p = ListProp THEN <<>>
                    ELSE IF p \in defined \ ItemProps THEN DefVal(p)
                    ELSE Null]

\* A set(js) that sets nothing.
ImportNothing(js) == requests

\* What set(js) enqueues: a write of every property of the export js.
ImportRequests(js) ==
  [p \in Props |->
     IF \E e \in js : e[1] = p THEN (CHOOSE e \in js : e[1] = p)[2]
     ELSE requests[p]]

\* export() of a model with nothing enqueued.
export ==
  /\ phase = "Sealed"
  /\ mode = "idle"
  /\ stage = "original"
  /\ IF Incoherent THEN RejectedIncoherent
     ELSE /\ ~Dirty
          /\ json' = Export(value)
          /\ stage' = "exported"
          /\ Report("none", Null, value)
          /\ UNCHANGED <<examples, template, previous, overridden, received, nodeType,
                         listening, readyCalls, phase, hook, instances,
                         inflight, shape, store, pending, mode, queue>>

\* A fresh model of the same shape is built and sealed: from here on the
\* state is that of the fresh model, next to the export of the original.
freshModel ==
  /\ phase = "Sealed"
  /\ mode = "idle"
  /\ stage = "exported"
  /\ stage' = "fresh"
  /\ value' = FreshValues
  /\ snapshot' = FreshValues
  /\ order' = EvaluationOrder(handlers, ActiveWhen(nodeDecl = "enabled"))
  /\ nodeExists' = (nodeDecl = "enabled")
  /\ pendingHs' = {}
  /\ extData' = Null
  /\ invoked' = {}
  /\ requests' = NoRequests
  /\ nodeReq' = "none"
  /\ listReq' = <<>>
  /\ reexec' = ActiveWhen(nodeDecl = "enabled")
  /\ previous' = [h \in UsesHistory |-> {}]
  /\ overridden' = {}
  /\ received' = [current |-> {}, modified |-> {}]
  /\ lastError' = "none"
  /\ lastRead' = Null
  /\ trigger' = "drain"
  /\ getProp' = "a"
  /\ ran' = <<>>
  /\ emitted' = {}
  /\ preBatch' = Before(FreshValues, {}, nodeDecl = "enabled", NoRequests)
  /\ delivered' = {}
  /\ calls' = <<>>
  /\ lastEvent' = "none"
  /\ warned' = FALSE
  /\ Relive(nodeDecl = "enabled", <<>>, <<>>)
  /\ UNCHANGED <<examples, template, nodeType, listening, readyCalls, json, phase, hook,
                 shape, mode, queue>>

\* set(json) on the fresh model: every property of the export is written.
import ==
  /\ phase = "Sealed"
  /\ mode = "idle"
  /\ stage = "fresh"
  /\ IF Incoherent THEN RejectedIncoherent
     ELSE /\ requests' = ImportRequests(json)
          /\ overridden' =
               overridden
                 \cup {e[1] : e \in {x \in json :
                                        Providers(x[1], Registered) # {}}}
          /\ stage' = "imported"
          /\ Report("none", Null, value)
          /\ UNCHANGED <<examples, template, previous, received, nodeType, listening,
                         readyCalls, json, phase, hook, instances, inflight,
                         shape, store, nodeReq, listReq, reexec, mode, queue>>

\* The external source of hExt delivers data: the handler keeps it and asks
\* to be re-executed.
onmessage(v) ==
  /\ phase = "Sealed"
  /\ mode = "idle"
  /\ "hExt" \in ActiveHandlers
  /\ extData' = v
  /\ reexec' = reexec \cup {"hExt"}
  /\ Report("none", Null, value)
  /\ UNCHANGED <<examples, extras, phase, hook, instances, inflight, shape, order, value, nodeExists, snapshot, pendingHs,
                 invoked, requests, nodeReq, listReq, mode, queue>>

\* The handler objects of owner o.
HandlersOf(o) ==
  {h \in Registered \cap Stateful :
     HandlerNode(h) = IF o = 0 THEN "child" ELSE "item"}

\* A liveness check that takes every instance for live.
Undead(o) == TRUE

\* The instance of owner o is live: constructed, not disposed of, and no
\* dispose()/removeNode() of its owner is enqueued.
Live(o) ==
  /\ o \in instances
  /\ IF o = 0 THEN WillExist ELSE o \in Items(WillList)

\* The external source the live handler object of owner o listens to sends
\* a message: it is under way.
send(o) ==
  /\ phase = "Sealed"
  /\ o \in instances \ inflight
  /\ Cardinality(inflight) < MaxInflight
  /\ inflight' = inflight \cup {o}
  /\ UNCHANGED <<examples, extras, phase, hook, shape, store, instances, lifecycle, discarded,
                 pending, mode, queue, logs>>

\* The message under way to the handler object of owner o arrives, outside
\* of any batch, and its callback calls output.hasChanged(): a live instance
\* is due to run again, the callback of an instance that is not live is
\* discarded.
hasChanged(o) ==
  /\ phase = "Sealed"
  /\ mode = "idle"
  /\ o \in inflight
  /\ inflight' = inflight \ {o}
  /\ reexec' = IF Live(o) THEN reexec \cup HandlersOf(o) ELSE reexec
  /\ UNCHANGED instances
  /\ Told("none", Null, value, IF Live(o) THEN {} ELSE {o})
  /\ UNCHANGED <<examples, extras, phase, hook, shape, store, requests, nodeReq, listReq, mode,
                 queue>>

\* props([p(str)]).resolve(node), called by a client: it returns the
\* property specifier and leaves the model as it is.
resolveCall(str, n) ==
  /\ resolved' = <<[str |-> str, against |-> n,
                    to |-> resolve(RelativeSpecifier(str), n)]>>
  /\ UNCHANGED <<engine, rates, ticket, tenorRun>>

\* ------------------------------------------------ the rate handler example

\* The currency pairs the rate handler is invoked with, and the rates the
\* message service delivers.
Pairs == {"EURUSD", "GBPUSD"}
RateVals == {5, 6}

\* The subject the handler requests: '/FX/' + input.currencyPair + '/' +
\* input.tenor + '/' + side + '/' + input.amount, for the tenor 'spot', the
\* side 'bid' and the amount 1.
SubjectOf(pair) == "/FX/" \o pair \o "/spot/bid/1"

Subjects == {SubjectOf(pair) : pair \in Pairs}

\* messageService.subscribe(subject, listener, {fields}).
Subscribe(ss, subject, listener) ==
  Append(ss, [subject |-> subject, listener |-> listener, live |-> TRUE])

\* A request that leaves the subscription it holds as it is.
KeepHeld(ss, held) == ss

\* if(this._messageServiceSubcription) {
\*   this._messageServiceSubcription.dispose(); }
DisposeHeld(ss, held) ==
  IF held # 0 THEN [ss EXCEPT ![held].live = FALSE] ELSE ss

\* The subscriptions of a listener that are not disposed.
LiveOf(listener) ==
  {i \in 1..Len(subs) : subs[i].listener = listener /\ subs[i].live}

\* The methods a Subscriber has.
SubscriberMethods ==
  {"requestSubject", "onDataUpdate", "onStatusUpdate", "onError"}

\* Subscriber.prototype.requestSubject(subject, callback).
Subscriber_requestSubject(subject, callback) ==
  /\ subs' = Subscribe(DisposeHeld(subs, subscriber.held), subject,
                       "Subscriber")
  /\ subscriber' = [held |-> Len(subs) + 1, callback |-> callback]

\* RateHandler.prototype.handler(input, output, current): the rate is
\* unavailable until the subject requested for the inputs delivers one.
\* The callback it passes closes over the output of this invocation.
RateHandler_handler(pair) ==
  /\ ~rateHandler.disposed
  /\ Len(subs) < MaxSubscriptions
  /\ rateHandler' = [rateHandler EXCEPT !.rate = Null,
                                        !.invoked = rateHandler.invoked + 1]
  /\ Subscriber_requestSubject(SubjectOf(pair), rateHandler.invoked + 1)
  /\ lastCall' = ExampleCall("handler", SubjectOf(pair), FALSE, "none", 0)
  /\ UNCHANGED <<engine, resolved, subscription, ticket, tenorRun>>

\* The message service delivers data for subscription i of the Subscriber:
\* Subscriber.prototype.onDataUpdate calls this._callback(data), which sets
\* output.rate = data.rate and calls output.hasBeenUpdated().
Subscriber_onDataUpdate(i, data) ==
  /\ i \in LiveOf("Subscriber")
  /\ rateHandler' = [rateHandler EXCEPT !.rate = data]
  /\ lastCall' = ExampleCall("Subscriber.onDataUpdate", subs[i].subject,
                             FALSE, "none", subscriber.callback)
  /\ UNCHANGED <<engine, resolved, subs, subscriber, subscription, ticket,
                 tenorRun>>

\* RateHandler.prototype.dispose(): this._subscriber.dispose().  A call of
\* a method the object does not have throws a TypeError.
RateHandler_dispose ==
  /\ ~rateHandler.disposed
  /\ rateHandler' = [rateHandler EXCEPT !.disposed = TRUE]
  /\ IF "dispose" \in SubscriberMethods
       THEN /\ subs' = DisposeHeld(subs, subscriber.held)
            /\ lastCall' = ExampleCall("dispose", Undefined, FALSE, "none", 0)
       ELSE /\ subs' = subs
            /\ lastCall' = ExampleCall("dispose", Undefined, FALSE,
                                       "TypeError", 0)
  /\ UNCHANGED <<engine, resolved, subscriber, subscription, ticket,
                 tenorRun>>

\* Subscription.prototype.updateSubject(subject).  Nothing assigns
\* this._subject, which the subject is compared with.
Subscription_updateSubject(subject) ==
  LET subjectUpdated == subject # subscription.subject
  IN /\ subjectUpdated => Len(subs) < MaxSubscriptions
     /\ subs' = IF subjectUpdated
                  THEN Subscribe(DisposeHeld(subs, subscription.held),
                                 subject, "Subscription")
                  ELSE subs
     /\ subscription' = IF subjectUpdated
                          THEN [subscription EXCEPT !.held = Len(subs) + 1]
                          ELSE subscription
     /\ lastCall' = ExampleCall("updateSubject", subject, subjectUpdated,
                                "none", 0)
     /\ UNCHANGED <<engine, resolved, subscriber, rateHandler, ticket,
                    tenorRun>>

\* The message service delivers data for subscription i of the
\* Subscription: Subscription.prototype.onDataUpdate keeps it.
Subscription_onDataUpdate(i, data) ==
  /\ i \in LiveOf("Subscription")
  /\ subscription' = [subscription EXCEPT !.data = data]
  /\ lastCall' = ExampleCall("Subscription.onDataUpdate", subs[i].subject,
                             FALSE, "none", 0)
  /\ UNCHANGED <<engine, resolved, subs, subscriber, rateHandler, ticket,
                 tenorRun>>

\* ---------------------------------------------------------- specifications

\* The handlers a client of the flat model registers.
FlatHandlers == {"hSum", "hBack", "hMux", "hOut"}

\* The handlers a client with an external data source registers.
ExtHandlers == {"hSum", "hExt"}

\* The handlers a client of the tree-shaped model registers.
TreeHandlers == {"hSum", "hNode"}

\* A client that composes a flat model: handlers and constants on the root;
\* its handler bodies may (wrongly) call the public API.
Next ==
  \/ \E h \in FlatHandlers : addHandler(h)
  \/ \E p \in {"a", "b"} : define(p)
  \/ allowMultiplexing("sum")
  \/ seal
  \/ \E p \in {"a", "b"} : \E v \in SetVals : set(p, v)
  \/ \E p \in Readable : get(p)
  \/ notifyListeners
  \/ \E api \in ApiCalls : RunHandler(api)
  \/ Notify
  \/ GetReturns
  \/ asap

Spec == Init /\ [][Next]_vars

\* A client whose model holds an externally updated handler object.
NextExt ==
  \/ \E h \in ExtHandlers : addHandler(h)
  \/ \E h \in ExtHandlers : addHandlerConstructor(h)
  \/ \E p \in {"a", "b"} : define(p)
  \/ seal
  \/ \E p \in {"a", "b"} : \E v \in SetVals : set(p, v)
  \/ \E p \in Readable : get(p)
  \/ notifyListeners
  \/ \E v \in ExtVals : onmessage(v)
  \/ RunHandler("none")
  \/ Notify
  \/ GetReturns
  \/ asap

SpecExt == Init /\ [][NextExt]_vars

\* A client that composes a tree-shaped model: an optional node and a
\* node-list beside the root; it leaves the node-list empty.
NextTree ==
  \/ \E h \in TreeHandlers : addHandler(h)
  \/ \E h \in TreeHandlers : addHandlerConstructor(h)
  \/ \E p \in Definable : define(p)
  \/ allowMultiplexing("sum")
  \/ addNode
  \/ addDisabledNode
  \/ addNodeList
  \/ seal
  \/ \E v \in SetVals : set("a", v)
  \/ notifyListeners
  \/ create
  \/ dispose
  \/ RunHandler("none")
  \/ Notify
  \/ asap

SpecTree == Init /\ [][NextTree]_vars

\* The handlers a client with a co-operatively provided property registers.
MuxHandlers == {"hSum", "hMux"}

\* Values that client sets: below and at hMux's threshold.
MuxVals == {3, 10}

\* A client whose handlers co-operatively provide `sum`.
NextMux ==
  \/ \E h \in MuxHandlers : addHandler(h)
  \/ \E p \in {"a", "b"} : define(p)
  \/ allowMultiplexing("sum")
  \/ seal
  \/ \E p \in {"a", "b"} : \E v \in MuxVals : set(p, v)
  \/ get("sum")
  \/ notifyListeners
  \/ RunHandler("none")
  \/ Notify
  \/ GetReturns
  \/ asap

SpecMux == Init /\ [][NextMux]_vars

\* A client that adds items to and removes items from a node-list.
NextList ==
  \/ addNodeList
  \/ seal
  \/ \E ix \in Indexes : nodesAddNode(AddIndex(ix, WillList))
  \/ \E ix \in Indexes : nodesRemoveNode(RemoveIndex(ix, WillList))
  \/ notifyListeners
  \/ Notify
  \/ asap

SpecList == Init /\ [][NextList]_vars

\* The handlers of a client that exports its model: none has an external
\* source.
CopyHandlers == {"hSum", "hOut", "hKeep"}

\* A client that builds a model of constants and handlers, uses it, exports
\* it and sets the export on a fresh model of the same shape.
NextCopy ==
  \/ \E p \in {"a", "b"} : define(p)
  \/ \E h \in CopyHandlers : addHandler(h)
  \/ seal
  \/ (stage = "original"
        /\ \E p \in {"a", "b", "kept"} : \E v \in SetVals : set(p, v))
  \/ export
  \/ freshModel
  \/ import
  \/ notifyListeners
  \/ RunHandler("none")
  \/ Notify
  \/ asap

SpecCopy == Init /\ [][NextCopy]_vars

\* A client whose handlers have inputs given with a path, and that calls
\* resolve() itself.
NextResolve ==
  \/ addNode
  \/ define("a")
  \/ define("down0")
  \/ \E h \in {"hUp", "hLost", "hGhost", "hKeep"} : addHandler(h)
  \/ seal
  \/ get("a")
  \/ notifyListeners
  \/ RunHandler("none")
  \/ Notify
  \/ GetReturns
  \/ asap
  \/ \E str \in SpecifierStrings : \E n \in Nodes : resolveCall(str, n)

SpecResolve == Init /\ [][NextResolve]_vars

\* ------------------------------------------------------ the ticket model

\* The types a ticket is given.
TicketTypes == {"outright", "swap", "strip"}

\* this.type.on('change', function(type) { ... }): removeNode() of the last
\* leg for 'outright', addNode() for any other type; the number of legs the
\* list will have.  An empty list has no last leg to remove.
typeChange(type, legs) ==
  IF type = "outright"
    THEN IF legs > 0 THEN legs - 1 ELSE 0
    ELSE legs + 1

\* ticket.set('type', type): enqueued; the latest value set in a batch is
\* the one the property gets.
ticketSetType(type) ==
  /\ type = "outright" \/ ticket.willLegs < MaxLegs
  /\ ticket' = [ticket EXCEPT !.willType = type]
  /\ UNCHANGED <<engine, resolved, rates, tenorRun>>

\* The batch drains: the legs added and removed take effect, the type gets
\* the value set, and when that differs from the value before the batch
\* the change listener is called, which enqueues the addition or removal
\* of a leg for the next batch.
ticketAsap ==
  /\ ticket.willType # ticket.type \/ ticket.willLegs # ticket.legs
  /\ ticket' = [ticket EXCEPT
                  !.type = ticket.willType,
                  !.legs = ticket.willLegs,
                  !.willLegs = IF ticket.willType # ticket.type
                                 THEN typeChange(ticket.willType,
                                                 ticket.willLegs)
                                 ELSE ticket.willLegs]
  /\ UNCHANGED <<engine, resolved, rates, tenorRun>>

\* ------------------------------------------------- the multi-leg tenors

\* A tenor is a number of days; 0 stands for undefined (a leg the handler
\* has written no tenor to, or one whose tenor is not modified), which
\* the handler's tests take for false as they take 0.
Tenors == 0..MaxTenor

\* modified.squash(): the tenors of the legs that have a modified one.
RECURSIVE squash(_)
squash(modified) ==
  IF modified = <<>> THEN <<>>
  ELSE IF Head(modified) # 0
         THEN <<Head(modified)>> \o squash(Tail(modified))
         ELSE squash(Tail(modified))

\* The decimal digits of a key below 100, and whether the string of one
\* key is greater than that of another.
Digits(k) == IF k < 10 THEN <<k>> ELSE <<k \div 10, k % 10>>

StringGreater(a, b) ==
  LET x == Digits(a)
      y == Digits(b)
  IN \/ x[1] > y[1]
     \/ x[1] = y[1] /\ Len(x) > Len(y)
     \/ x[1] = y[1] /\ Len(x) = 2 /\ Len(y) = 2 /\ x[2] > y[2]

\* verifyTenors(tenors): for(var tenor in tenors) visits the keys of the
\* array, the strings '0', '1', ..., of which every one is true; whether
\* it throws.
verifyTenors(tenors) ==
  \E i \in 1..(Len(tenors) - 1) : StringGreater(i - 1, i)

\* The loop of multiLegTenorHandler from leg i on, prevValidTenor being
\* what it is before leg i: the tenors written to the output.
RECURSIVE TenorsFrom(_, _, _, _, _)
TenorsFrom(i, prevValidTenor, current, modified, firstModifiedTenor) ==
  IF i > Len(current) THEN <<>>
  ELSE LET modifiedTenor == modified[i]
           currentTenor == current[i]
           tenor ==
             IF modifiedTenor # 0 THEN modifiedTenor
             ELSE IF prevValidTenor # 0
               THEN IF prevValidTenor <= currentTenor THEN currentTenor
                    ELSE prevValidTenor
             ELSE IF firstModifiedTenor # 0
                       /\ currentTenor > firstModifiedTenor
               THEN firstModifiedTenor
             ELSE currentTenor
       IN <<tenor>> \o TenorsFrom(i + 1,
                                  IF modifiedTenor # 0 \/ prevValidTenor # 0
                                    THEN tenor ELSE prevValidTenor,
                                  current, modified, firstModifiedTenor)

\* The tenors of n legs none of which has one yet.
NoTenors(n) == [i \in 1..n |-> 0]

\* multiLegTenorHandler(input, output, current, modified), on a list that
\* has legs already: current holds the tenors it wrote before, modified
\* the tenors changed from outside.  When verifyTenors() throws, nothing
\* is written.
multiLegTenorHandler(legs, modified) ==
  LET current == IF tenorRun = <<>> THEN NoTenors(legs)
                 ELSE tenorRun[1].output
      thrown == verifyTenors(squash(modified))
      firstModifiedTenor ==
        IF Len(squash(modified)) = 0 THEN 0 ELSE squash(modified)[1]
  IN /\ Len(modified) = Len(current)
     /\ tenorRun' =
          <<[current |-> current, modified |-> modified, thrown |-> thrown,
             output |-> IF thrown THEN current
                        ELSE TenorsFrom(1, 0, current, modified,
                                        firstModifiedTenor)]>>
     /\ UNCHANGED <<engine, resolved, rates, ticket>>

\* The engine invoking and disposing of a RateHandler, a client updating
\* the subject of a Subscription, and the message service delivering data.
NextRate ==
  \/ \E pair \in Pairs : RateHandler_handler(pair)
  \/ \E i \in 1..MaxSubscriptions : \E data \in RateVals :
       Subscriber_onDataUpdate(i, data)
  \/ RateHandler_dispose
  \/ \E subject \in Subjects \cup {Undefined} :
       Subscription_updateSubject(subject)
  \/ \E i \in 1..MaxSubscriptions : \E data \in RateVals :
       Subscription_onDataUpdate(i, data)

SpecRate == Init /\ [][NextRate]_vars

\* A client setting the type of a ticket, with a RateHandler at work on
\* its legs.
NextTicket ==
  \/ \E type \in TicketTypes : ticketSetType(type)
  \/ ticketAsap
  \/ \E pair \in Pairs : RateHandler_handler(pair)
  \/ \E i \in 1..MaxSubscriptions : \E data \in RateVals :
       Subscriber_onDataUpdate(i, data)

SpecTicket == Init /\ [][NextTicket]_vars

\* A client modifying the tenors of the legs of a list.
NextTenor ==
  \E legs \in 1..MaxLegs : \E modified \in [1..legs -> Tenors] :
    multiLegTenorHandler(legs, modified)

SpecTenor == Init /\ [][NextTenor]_vars

\* A client whose handlers have an output taken asList().
NextScope ==
  \/ addNodeList
  \/ \E h \in {"hAll", "hAllOnNode", "hAllForeign"} : addHandler(h)
  \/ seal
  \/ nodesAddNode(AddIndex(<<>>, WillList))
  \/ nodesRemoveNode(RemoveIndex(<<>>, WillList))
  \/ notifyListeners
  \/ RunHandler("none")
  \/ Notify
  \/ asap

SpecScope == Init /\ [][NextScope]_vars

\* A client that builds a self-referential structure below `child`, and
\* creates and disposes of its levels.
NextSelf ==
  \/ addDisabledNode
  \/ define("down0")
  \/ addHandler("hUp")
  \/ addHandler("hDown")
  \/ defineAs
  \/ seal
  \/ create
  \/ dispose
  \/ createLeaf
  \/ disposeLeaf
  \/ notifyListeners
  \/ RunHandler("none")
  \/ Notify
  \/ asap

SpecSelf == Init /\ [][NextSelf]_vars

\* `child` and the node-list are declared, `a` and `q` are defined, and the
\* handlers of the node (hNode) and of the root (hKeep) are registered.
InitQueue ==
  /\ phase = "Building"
  /\ hook = "off"
  /\ handlers = <<"hNode", "hKeep">>
  /\ defined = {"a", "q"}
  /\ multiplexed = {}
  /\ nodeDecl = "disabled"
  /\ listDecl = TRUE
  /\ order = <<>>
  /\ value = [p \in Props |-> IF p = ListProp THEN <<>>
                              ELSE IF p \in {"a", "q"} THEN DefVal(p)
                              ELSE Null]
  /\ nodeExists = FALSE
  /\ snapshot = value
  /\ pendingHs = {}
  /\ extData = Null
  /\ invoked = {}
  /\ instances = {}
  /\ inflight = {}
  /\ lifecycle = <<>>
  /\ discarded = {}
  /\ requests = NoRequests
  /\ nodeReq = "none"
  /\ listReq = <<>>
  /\ reexec = {}
  /\ mode = "idle"
  /\ queue = <<>>
  /\ trigger = "drain"
  /\ getProp = "a"
  /\ ran = <<>>
  /\ emitted = {}
  /\ preBatch = Before(value, {}, FALSE, NoRequests)
  /\ lastError = "none"
  /\ lastRead = Null
  /\ delivered = {}
  /\ calls = <<>>
  /\ lastEvent = "none"
  /\ warned = FALSE
  /\ template = <<>>
  /\ previous = [h \in UsesHistory |-> {}]
  /\ overridden = {}
  /\ received = [current |-> {}, modified |-> {}]
  /\ nodeType = "base"
  /\ listening = "none"
  /\ readyCalls = 0
  /\ json = {}
  /\ stage = "original"
  /\ InitExamples

\* A client that uses every call of the run-time API that changes such a
\* model.
NextQueue ==
  \/ seal
  \/ \E v \in SetVals : set("a", v)
  \/ create
  \/ dispose
  \/ nodesAddNode(AddIndex(<<>>, WillList))
  \/ nodesRemoveNode(RemoveIndex(<<>>, WillList))
  \/ notifyListeners
  \/ RunHandler("none")
  \/ Notify
  \/ asap

SpecQueue == InitQueue /\ [][NextQueue]_vars

\* A client that listens for the ready event of a model whose externally
\* updated handler object gets data from its source, and loses it.
NextReady ==
  \/ addHandlerConstructor("hExt")
  \/ seal
  \/ onReady
  \/ \E v \in ExtVals \cup {Null} : onmessage(v)
  \/ get("data")
  \/ notifyListeners
  \/ RunHandler("none")
  \/ Notify
  \/ GetReturns
  \/ asap

SpecReady == Init /\ [][NextReady]_vars

\* A client of a model whose optional node has specializations, one with a
\* handler of its own.
NextType ==
  \/ addDisabledNode
  \/ define("q")
  \/ addHandlerConstructor("hNode")
  \/ addHandler("hFoo")
  \/ seal
  \/ \E t \in Tags : createAs(t)
  \/ dispose
  \/ notifyListeners
  \/ RunHandler("none")
  \/ Notify
  \/ asap

SpecType == Init /\ [][NextType]_vars

\* A client of a model whose handler looks at its `current` and `modified`
\* maps, and whose output the client also writes.
NextKeep ==
  \/ define("a")
  \/ addHandler("hKeep")
  \/ addHandler("hOut")
  \/ seal
  \/ \E v \in SetVals : set("a", v)
  \/ \E v \in SetVals : set("kept", v)
  \/ notifyListeners
  \/ RunHandler("none")
  \/ Notify
  \/ asap

SpecKeep == Init /\ [][NextKeep]_vars

\* A client whose root handler takes a property of the items of a
\* node-list as a list, and that adds, removes and writes to items.
NextAsList ==
  \/ addNodeList
  \/ defineItems
  \/ addHandler("hNames")
  \/ seal
  \/ \E ix \in Indexes : nodesAddNode(AddIndex(ix, WillList))
  \/ \E ix \in Indexes : nodesRemoveNode(RemoveIndex(ix, WillList))
  \/ \E x \in ItemIds : \E v \in ItemVals : set(ItemProp(x), v)
  \/ notifyListeners
  \/ RunHandler("none")
  \/ Notify
  \/ asap

SpecAsList == Init /\ [][NextAsList]_vars

\* The handlers a client with a beforechange listener registers.
HookHandlers == {"hSum", "hOut"}

\* A client with a beforechange listener that may adjust the model.
NextHook ==
  \/ \E h \in HookHandlers : addHandler(h)
  \/ \E p \in {"a", "b"} : define(p)
  \/ addNodeList
  \/ seal
  \/ onBeforeChange
  \/ \E v \in SetVals : set("a", v)
  \/ notifyListeners
  \/ RunHandler("none")
  \/ \E act \in HookCalls : BeforeChange(act)
  \/ Reenter
  \/ Notify
  \/ asap

SpecHook == Init /\ [][NextHook]_vars

\* The same client, with the drain running to completion once it has
\* started: a drain is one synchronous call, in which the handlers of the
\* batch run, the beforechange listener is called, what it enqueued is
\* applied and the change listeners are notified, without waiting for the
\* client.
SpecHookFair ==
  /\ SpecHook
  /\ WF_vars(RunHandler("none"))
  /\ WF_vars(\E act \in HookCalls : BeforeChange(act))
  /\ WF_vars(Reenter)
  /\ WF_vars(Notify)

\* The handlers of the model whose evaluation order is examined: hOut
\* consumes what hSum provides, hExt is independent of both.
OrderHandlers == {"hSum", "hOut", "hExt"}

\* The ways to register some of the handlers hs.
RegistrationsOf(hs) ==
  {s \in UNION {[1..n -> hs] : n \in 0..MaxOrdered} :
     \A i \in 1..Len(s) : \A j \in 1..Len(s) : s[i] = s[j] => i = j}

\* The ways to register some of them.
Registrations == RegistrationsOf(OrderHandlers)

\* A model under construction: `a` and `b` are defined and some handlers
\* are registered, in one of the orders regs.
InitWith(regs) ==
  /\ phase = "Building"
  /\ hook = "off"
  /\ handlers \in regs
  /\ defined = {"a", "b"}
  /\ multiplexed = {}
  /\ nodeDecl = "none"
  /\ listDecl = FALSE
  /\ order = <<>>
  /\ value = [p \in Props |-> IF p = ListProp THEN <<>>
                              ELSE IF p \in {"a", "b"} THEN DefVal(p)
                              ELSE Null]
  /\ nodeExists = FALSE
  /\ snapshot = value
  /\ pendingHs = {}
  /\ extData = Null
  /\ invoked = {}
  /\ instances = {}
  /\ inflight = {}
  /\ lifecycle = <<>>
  /\ discarded = {}
  /\ requests = NoRequests
  /\ nodeReq = "none"
  /\ listReq = <<>>
  /\ reexec = {}
  /\ mode = "idle"
  /\ queue = <<>>
  /\ trigger = "drain"
  /\ getProp = "a"
  /\ ran = <<>>
  /\ emitted = {}
  /\ preBatch = Before(value, {}, FALSE, NoRequests)
  /\ lastError = "none"
  /\ lastRead = Null
  /\ delivered = {}
  /\ calls = <<>>
  /\ lastEvent = "none"
  /\ warned = FALSE
  /\ template = <<>>
  /\ previous = [h \in UsesHistory |-> {}]
  /\ overridden = {}
  /\ received = [current |-> {}, modified |-> {}]
  /\ nodeType = "base"
  /\ listening = "none"
  /\ readyCalls = 0
  /\ json = {}
  /\ stage = "original"
  /\ InitExamples

\* A model under construction: `a` and `b` are defined and some handlers
\* are registered, in some order.
InitOrder == InitWith(Registrations)

\* A client that seals such a model and uses it.
NextOrder ==
  \/ seal
  \/ \E v \in SetVals : set("a", v)
  \/ \E v \in ExtVals : onmessage(v)
  \/ notifyListeners
  \/ RunHandler("none")
  \/ Notify
  \/ asap

SpecOrder == InitOrder /\ [][NextOrder]_vars

\* The handlers of a diamond: hSum and hKeep both read `a`, hJoin reads
\* what both provide.
DiamondHandlers == {"hSum", "hKeep", "hJoin"}

InitDiamond == InitWith(RegistrationsOf(DiamondHandlers))

\* A client that seals such a model and writes to `a` and `b`.
NextDiamond ==
  \/ seal
  \/ \E p \in {"a", "b"} : \E v \in SetVals : set(p, v)
  \/ notifyListeners
  \/ RunHandler("none")
  \/ Notify
  \/ asap

SpecDiamond == InitDiamond /\ [][NextDiamond]_vars

\* A model under construction whose nodes come and go: the disabled node
\* `child` and the node-list are declared, `q` is defined, and the handler
\* objects of the node (hNode) and of the list's items (hItem) are
\* registered.
InitLife ==
  /\ phase = "Building"
  /\ hook = "off"
  /\ handlers = <<"hNode", "hItem">>
  /\ defined = {"q"}
  /\ multiplexed = {}
  /\ nodeDecl = "disabled"
  /\ listDecl = TRUE
  /\ order = <<>>
  /\ value = [p \in Props |-> IF p = ListProp THEN <<>>
                              ELSE IF p = "q" THEN DefVal(p)
                              ELSE Null]
  /\ nodeExists = FALSE
  /\ snapshot = value
  /\ pendingHs = {}
  /\ extData = Null
  /\ invoked = {}
  /\ instances = {}
  /\ inflight = {}
  /\ lifecycle = <<>>
  /\ discarded = {}
  /\ requests = NoRequests
  /\ nodeReq = "none"
  /\ listReq = <<>>
  /\ reexec = {}
  /\ mode = "idle"
  /\ queue = <<>>
  /\ trigger = "drain"
  /\ getProp = "a"
  /\ ran = <<>>
  /\ emitted = {}
  /\ preBatch = Before(value, {}, FALSE, NoRequests)
  /\ lastError = "none"
  /\ lastRead = Null
  /\ delivered = {}
  /\ calls = <<>>
  /\ lastEvent = "none"
  /\ warned = FALSE
  /\ template = <<>>
  /\ previous = [h \in UsesHistory |-> {}]
  /\ overridden = {}
  /\ received = [current |-> {}, modified |-> {}]
  /\ nodeType = "base"
  /\ listening = "none"
  /\ readyCalls = 0
  /\ json = {}
  /\ stage = "original"
  /\ InitExamples

\* A client that seals such a model, creates and disposes of the optional
\* node, adds items to and removes them from the end of the node-list, and
\* whose handler objects are externally updated.
NextLife ==
  \/ seal
  \/ create
  \/ dispose
  \/ nodesAddNode(AddIndex(<<>>, WillList))
  \/ nodesRemoveNode(RemoveIndex(<<>>, WillList))
  \/ \E o \in {0} \cup ItemIds : send(o)
  \/ \E o \in {0, FormerNode} \cup ItemIds : hasChanged(o)
  \/ notifyListeners
  \/ RunHandler("none")
  \/ Notify
  \/ asap

SpecLife == InitLife /\ [][NextLife]_vars

\* ------------------------------------------------------------- properties

\* Two registered handlers each consume an output of the other.
TwoCycle ==
  \E A \in Registered : \E B \in Registered \ {A} :
    DependsOn(A, B) /\ DependsOn(B, A)

\* The handlers that are part of such a cycle.
CycleHandlers ==
  {A \in Registered : \E B \in Registered \ {A} :
     DependsOn(A, B) /\ DependsOn(B, A)}

\* An input of a handler of hs that no define() and no registered handler
\* provides.
Missing(hs) ==
  {p \in UNION {Inputs(h) : h \in hs} :
     p \notin defined /\ \A g \in Registered : p \notin Outputs(g)}

\* A property several registered handlers provide although it was not marked
\* with allowMultiplexing().
Contested ==
  {p \in Props : p \notin multiplexed
                 /\ \E g, h \in Registered :
                      g # h /\ p \in Outputs(g) /\ p \in Outputs(h)}

\* C1, as stated: when two handlers form a cycle, seal() raises
\* CircularDependencyError, the model is never sealed, and neither handler
\* is ever invoked.
C1_CycleRaisesCircularDependencyError ==
  [][/\ (seal /\ TwoCycle) =>
          lastError' = "CircularDependencyError" /\ phase' = "Building"
     /\ TwoCycle' => phase' = "Building" /\ invoked' \cap CycleHandlers' = {}
    ]_vars

\* C1, amended: when two handlers form a cycle, seal() fails, the model is
\* never sealed and neither handler is ever invoked; the error is
\* CircularDependencyError when the cycle is the model's only defect, and
\* the StructuralError of the input or output check, which come first, when
\* an input is unprovided or an output has several providers.
C1_CycleFailsSeal ==
  [][/\ (seal /\ TwoCycle) =>
          /\ phase' = "Building"
          /\ lastError' \in StructuralErrors
          /\ (Missing(Registered) = {} /\ Contested = {})
               => lastError' = "CircularDependencyError"
          /\ (Missing(Registered) # {} \/ Contested # {})
               => lastError' = "StructuralError"
     /\ TwoCycle' => phase' = "Building" /\ invoked' \cap CycleHandlers' = {}
    ]_vars

\* seal() has just refused a cyclic model whose only defect is the cycle.
C1_Witness ==
  /\ TwoCycle
  /\ Missing(Registered) = {}
  /\ lastError = "CircularDependencyError"
  /\ phase = "Building"

\* The handlers of the set hs that read, directly or through other handlers
\* of hs, a property of ps.
RECURSIVE Downstream(_, _)
Downstream(ps, hs) ==
  LET more == UNION {Outputs(h) : h \in {g \in hs : Inputs(g) \cap ps # {}}}
  IN IF more \subseteq ps THEN {g \in hs : Inputs(g) \cap ps # {}}
     ELSE Downstream(ps \cup more, hs)

\* Every active handler's output is what the handler computes from the
\* current values of its inputs.
Settled ==
  \A h \in ActiveHandlers :
    HandlerResult(h).ok =>
      \A e \in HandlerResult(h).out : value[e[1]] = e[2]

\* C2: listeners are called only when the handler phase of the batch is
\* over and every handler affected by the batch's writes has been re-run,
\* and the notifications come together: one step delivers every property
\* that differs from what listeners last saw, with all handler outputs
\* recomputed.
C2_Atomicity ==
  [][delivered' # {} =>
       /\ queue = <<>>
       /\ mode' = "idle"
       /\ Downstream({p \in Props : preBatch'.req[p] # Null}, ActiveHandlers')
            \subseteq {ran'[i] : i \in 1..Len(ran')}
       /\ delivered' = {p \in Props : value'[p] # snapshot[p]}
       /\ snapshot' = value'
       /\ Settled'
    ]_vars

\* A write to `a` made listeners hear of a, sum and out in one delivery,
\* after both affected handlers had run.
C2_Witness ==
  /\ delivered = {"a", "sum", "out"}
  /\ ran = <<"hSum", "hOut">>
  /\ preBatch.req["a"] = 10

\* How many times the latest batch ran handler h.
RunsOf(h) == Cardinality({i \in 1..Len(ran) : ran[i] = h})

\* A get('sum') of a model with the summation handler has just returned.
GotSum ==
  /\ phase = "Sealed"
  /\ mode = "idle"
  /\ trigger = "get"
  /\ getProp = "sum"
  /\ lastError = "none"
  /\ "hSum" \in Registered

\* C3: a get('sum') returns the sum of the inputs as written, the pending
\* writes having been drained by one batch that ran the handler once; with
\* a = 2 and b = 3 it returns 5, and after set('a', 10) it returns 13.
C3_ReadYourWrites ==
  GotSum =>
    /\ lastRead = value["a"] + value["b"]
    /\ requests = NoRequests
    /\ \A p \in {"a", "b"} :
         preBatch.req[p] # Null =>
           value[p] = preBatch.req[p] /\ RunsOf("hSum") = 1
    /\ (value["a"] = 2 /\ value["b"] = 3) => lastRead = 5
    /\ (preBatch.req["a"] = 10 /\ value["b"] = 3) => lastRead = 13

\* get('sum') returned 13 right after set('a', 10), by a batch that ran the
\* summation handler once and has not yet notified listeners.
C3_Witness ==
  /\ GotSum
  /\ preBatch.req["a"] = 10
  /\ preBatch.val["sum"] = 5
  /\ lastRead = 13
  /\ ran = <<"hSum">>
  /\ snapshot["a"] = 2

\* C4: in a sealed model the evaluation order holds every active handler
\* once, and each input of each handler is a define()d constant or the
\* output of a handler placed strictly earlier.
C4_OrderIsLinearization ==
  phase = "Sealed" =>
    /\ {order[i] : i \in 1..Len(order)} = ActiveHandlers
    /\ Len(order) = Cardinality(ActiveHandlers)
    /\ \A i \in 1..Len(order) : \A p \in Inputs(order[i]) :
         \/ p \in defined
         \/ \E j \in 1..(i - 1) : p \in Outputs(order[j])

\* A consumer registered before its provider is evaluated after it.
C4_Witness ==
  /\ phase = "Sealed"
  /\ handlers = <<"hOut", "hSum">>
  /\ order = <<"hSum", "hOut">>

\* C5: seal() fails with a structural error when a property not marked with
\* allowMultiplexing() has several providers, and in a sealed model every
\* such property has at most one provider.
C5_SingleProvider ==
  [][/\ (seal /\ phase = "Building" /\ Contested # {}) =>
          phase' = "Building" /\ lastError' = "StructuralError"
     /\ phase' = "Sealed" => Contested' = {}
    ]_vars

\* seal() has just refused a model, complete but for two handlers providing
\* sum without allowMultiplexing('sum').
C5_Witness ==
  /\ Registered = {"hSum", "hMux"}
  /\ Contested = {"sum"}
  /\ Missing(Registered) = {}
  /\ lastError = "StructuralError"
  /\ phase = "Building"

\* The handlers seal() verifies: all but those of a node added with
\* addDisabledNode().
VerifiedAtSeal ==
  {h \in Registered : HandlerNode(h) # "child" \/ nodeDecl = "enabled"}

\* C6: seal() fails when an input of a handler it verifies is provided
\* neither by a handler nor by define(); an unprovided input inside a node
\* added with addDisabledNode() does not fail seal() but the node's
\* create(), which leaves the node non-existent.
C6_InputsProvided ==
  [][/\ (seal /\ phase = "Building" /\ Missing(VerifiedAtSeal) # {}) =>
          phase' = "Building" /\ lastError' = "StructuralError"
     /\ (seal /\ phase = "Building" /\ Missing(VerifiedAtSeal) = {}
           /\ Contested = {} /\ ~TwoCycle) =>
          phase' = "Sealed" /\ lastError' = "none"
     /\ phase' = "Sealed" => Missing(ActiveHandlers') = {}
     /\ (create /\ ~Incoherent /\ Missing(Registered) # {}) =>
          /\ lastError' = "StructuralError"
          /\ ~nodeExists' /\ nodeReq' = "none"
    ]_vars

\* A sealed model whose disabled node holds a handler with an unprovided
\* input: seal() accepted it and create() has just refused.
C6_Witness ==
  /\ phase = "Sealed"
  /\ nodeDecl = "disabled"
  /\ "hNode" \in Registered
  /\ "q" \notin defined
  /\ lastError = "StructuralError"
  /\ ~nodeExists

\* A declaration call: one that would change the shape.
Declaration ==
  \/ \E h \in Handlers : addHandler(h)
  \/ \E h \in Handlers : addHandlerConstructor(h)
  \/ \E p \in Definable : define(p)
  \/ \E p \in Props : allowMultiplexing(p)
  \/ addNode
  \/ addDisabledNode
  \/ addNodeList

\* C7: a sealed model stays sealed and keeps its shape; a second seal() is
\* an error and every later declaration is rejected, both changing nothing.
C7_SealIsOneWay ==
  [][phase = "Sealed" =>
       /\ phase' = "Sealed"
       /\ shape' = shape
       /\ seal => /\ lastError' = "AlreadySealedError"
                  /\ UNCHANGED <<store, pending>>
       /\ Declaration => /\ lastError' = "SealedError"
                         /\ UNCHANGED <<store, pending>>
    ]_vars

\* After seal() a value was set and the optional node was created; a
\* declaration has just been rejected.
C7_Witness ==
  /\ phase = "Sealed"
  /\ value["a"] = 10
  /\ listDecl
  /\ nodeDecl = "disabled"
  /\ nodeExists
  /\ lastError = "SealedError"

\* An external get() or set() call.
ReadOrWrite ==
  \/ \E p \in Readable : get(p)
  \/ \E p \in {"a", "b"} : \E v \in SetVals : set(p, v)

\* The handler phase of a batch ends without the batch failing.
BatchEnds == mode = "handlers" /\ mode' = "idle" /\ lastError' = "none"

\* C8: a handler that declines to supply output puts the model in the
\* incoherent state, and the batch emits pending; while incoherent, get()
\* and set() fail with an error and change nothing, and no listener is told
\* of a change; once the handler supplies its output in a later batch the
\* model emits resumed and get() and set() are accepted again.
C8_Incoherent ==
  [][/\ (RunHandler("none") /\ Head(queue) = "hExt" /\ extData = Null) =>
          "hExt" \in pendingHs'
     /\ (BatchEnds /\ preBatch.pend = {} /\ pendingHs' # {}) =>
          lastEvent' = "pending"
     /\ (Incoherent /\ ReadOrWrite) =>
          /\ lastError' = "RuntimeAccessError"
          /\ lastRead' = Null
          /\ UNCHANGED <<store, pending, mode>>
     /\ Incoherent' => delivered' = {} /\ snapshot' = snapshot
     /\ (BatchEnds /\ preBatch.pend # {} /\ pendingHs' = {}) =>
          lastEvent' = "resumed"
     /\ (~Incoherent /\ mode = "idle" /\ ReadOrWrite) =>
          lastError' = "none"
    ]_vars

\* The externally updated handler declined, its data arrived, and the batch
\* that took the data in has emitted resumed and told listeners of `data`.
C8_Witness ==
  /\ lastEvent = "resumed"
  /\ preBatch.pend = {"hExt"}
  /\ pendingHs = {}
  /\ value["data"] = 7
  /\ "data" \in delivered

\* The handler about to run emits, for a property, a value unequal to one
\* already emitted for it in this batch.
Disagreement ==
  /\ mode = "handlers"
  /\ queue # <<>>
  /\ \E e \in HandlerResult(Head(queue)).out : \E f \in emitted :
       e[1] = f[1] /\ e[2] # f[2]

C10_MultiplexConflict ==
  [][/\ (Disagreement /\ \E api \in ApiCalls \ Mutators : RunHandler(api)) =>
          /\ lastError' = "MultiplexConflictError"
          /\ mode' = "idle"
          /\ \A p \in Props : value'[p] = preBatch.val[p]
          /\ delivered' = {}
          /\ snapshot' = snapshot
     /\ lastError' = "MultiplexConflictError" =>
          /\ value'["sum"] = preBatch'.val["sum"]
          /\ "sum" \notin delivered'
    ]_vars

\* hSum emitted 12 and hMux 20 for sum: the batch failed and sum is still 5.
C10_Witness ==
  /\ lastError = "MultiplexConflictError"
  /\ ran = <<"hSum", "hMux">>
  /\ preBatch.req["b"] = 10
  /\ value["sum"] = 5
  /\ value["b"] = 3

\* How many of the latest drain's callbacks were change events of p.
ChangeCallsOf(p) ==
  Cardinality({i \in 1..Len(calls) : calls[i] = <<"change", p>>})

\* The values the handlers of the latest batch emitted for `sum`.
SumEmitted == {e[2] : e \in {f \in emitted : f[1] = "sum"}}

\* Both providers of `sum` ran in the latest batch and both emitted.
BothEmitted ==
  /\ lastError = "none"
  /\ \E i, j \in 1..Len(ran) : ran[i] = "hSum" /\ ran[j] = "hMux"
  /\ value["b"] >= 10

\* Listeners are being told of the latest batch.
Telling == Notify \/ (Drain /\ ~Dirty)

\* C11: when both providers of a multiplexed property emit equal values in
\* a batch, the property holds that one value and the drain makes exactly
\* one change callback for it (none if listeners had already seen that
\* value), never one per provider.
C11_MultiplexEqual ==
  [][(Telling /\ BothEmitted) =>
       /\ SumEmitted = {value'["sum"]}
       /\ ChangeCallsOf("sum")' = IF value'["sum"] # snapshot["sum"] THEN 1 ELSE 0
       /\ ("sum" \in delivered') = (value'["sum"] # snapshot["sum"])
    ]_vars

\* hSum and hMux both emitted 20 for sum in one batch, and listeners got one
\* change callback for it.
C11_Witness ==
  /\ ran = <<"hSum", "hMux">>
  /\ emitted = {<<"sum", 20>>}
  /\ value["sum"] = 20
  /\ preBatch.val["sum"] = 13
  /\ ChangeCallsOf("sum") = 1
  /\ "sum" \in multiplexed

\* C12: after a batch in which no provider of the multiplexed property
\* emitted a value the property has the value it had before the batch, and
\* after one in which a provider emitted a value it has that value.
C12_MultiplexZeroOrOne ==
  (mode = "idle" /\ lastError = "none" /\ "sum" \in multiplexed) =>
    /\ SumEmitted = {} => value["sum"] = preBatch.val["sum"]
    /\ \A v \in SumEmitted : value["sum"] = v

\* hMux alone provides sum; it emitted 20, and in the latest batch, b being
\* back at 3, it emitted nothing: sum is still 20.
C12_Witness ==
  /\ Registered = {"hMux"}
  /\ "sum" \in multiplexed
  /\ ran = <<"hMux">>
  /\ emitted = {}
  /\ preBatch.val["b"] = 10
  /\ value["b"] = 3
  /\ value["sum"] = 20

\* C13: notifyListeners() with nothing enqueued and nothing listeners are
\* owed, or called right after a drain that has just told them, makes no
\* callback and changes nothing; a drain that has told listeners leaves no
\* batch pending.
C13_NotifyIdempotent ==
  [][/\ (notifyListeners /\ ~Dirty /\ (~Owed \/ calls # <<>>)) =>
          /\ calls' = <<>>
          /\ delivered' = {}
          /\ lastError' = "none"
          /\ UNCHANGED <<phase, shape, store, pending, mode, queue>>
     /\ Telling => ~Dirty' /\ (Incoherent' \/ ~Owed')
    ]_vars

\* notifyListeners() has just been called on a settled model whose
\* listeners had been told everything: it made no callback.
C13_Witness ==
  /\ phase = "Sealed"
  /\ mode = "idle"
  /\ trigger = "drain"
  /\ lastError = "none"
  /\ ~Dirty
  /\ ~Owed
  /\ ran = <<>>
  /\ calls = <<>>
  /\ value["sum"] = 5
  /\ snapshot["sum"] = 5

\* The mutation listeners of the node-list are among those called.
MutationCalled == \E k \in 1..Len(calls) : calls[k] = <<"mutation", ListProp>>

\* C14: on a sealed node-list, the removeNode(i) that follows an addNode(i)
\* before the drain removes the item just added, so that every other item
\* is back at the index it had; the batch applies the list the calls leave,
\* and a batch that closes on the list it started from calls no mutation
\* listener.
C14_AddThenRemove ==
  [][/\ \A i \in 0..MaxList :
          /\ (nodesAddNode(i) /\ ~Incoherent) =>
               /\ lastError' = "none"
               /\ mode' = "idle" /\ ~Incoherent' /\ listReq' # <<>>
               /\ i \in 0..(Len(WillList') - 1)
               /\ Len(WillList') = Len(WillList) + 1
               /\ WillList'[i + 1] \notin Items(WillList)
               /\ RemoveAt(WillList', i) = WillList
          /\ (nodesRemoveNode(i) /\ ~Incoherent) =>
               /\ lastError' = "none"
               /\ WillList' = RemoveAt(WillList, i)
               /\ value' = value
     /\ (Drain /\ Dirty) => value'[ListProp] = WillList
     /\ (Notify /\ value[ListProp] = preBatch.val[ListProp]) =>
          /\ ~MutationCalled'
          /\ ListProp \notin delivered'
          /\ value'[ListProp] = preBatch.val[ListProp]
    ]_vars

\* An addNode(0) and then a removeNode(0) are enqueued on a list of one
\* item: the list they leave is the list as it was.
C14_Witness ==
  /\ phase = "Sealed"
  /\ lastError = "none"
  /\ Len(value[ListProp]) = 1
  /\ listReq = <<value[ListProp]>>
  /\ snapshot[ListProp] = value[ListProp]

\* The change and mutation callbacks among the callbacks c.
EventCalls(c) == {k \in 1..Len(c) : c[k][1] \in {"change", "mutation"}}

\* Every beforechange callback of c comes before every change and mutation
\* callback of c.
HookFirst(c) ==
  \A j \in 1..Len(c) : \A k \in EventCalls(c) :
    c[j] = BeforeChangeCall => j < k

\* C15: the beforechange listener is called before the change and mutation
\* listeners of the batch, while all handlers have run and nothing has been
\* delivered; when it calls set(), addNode() or removeNode() the batch stays
\* open and nothing is delivered, the call is applied and every handler
\* downstream of it is queued to re-run, and the change and mutation
\* listeners are called only after the listener has let the batch close,
\* with all handler outputs recomputed and for the values as they then are.
C15_BeforeChange ==
  [][/\ \A act \in HookCalls :
          BeforeChange(act) =>
            /\ EventCalls(calls) = {}
            /\ EventCalls(calls') = {}
            /\ calls'[Len(calls')] = BeforeChangeCall
            /\ Settled
            /\ delivered' = {}
            /\ snapshot' = snapshot
            /\ mode' = "handlers"
            /\ (act # "none" /\ ~Incoherent) => Dirty' /\ ~HookDone'
     /\ Reenter =>
          /\ mode' = "handlers"
          /\ delivered' = {}
          /\ calls' = calls
          /\ snapshot' = snapshot
          /\ ~Dirty'
          /\ \A p \in Props : requests[p] # Null => value'[p] = requests[p]
          /\ listReq # <<>> => value'[ListProp] = listReq[1]
          /\ Downstream({p \in Props : requests[p] # Null}, ActiveHandlers')
               \subseteq {queue'[k] : k \in 1..Len(queue')}
     /\ (Notify /\ hook # "off" /\ ~Incoherent) =>
          /\ hook = "fired"
          /\ calls # <<>>
          /\ calls[Len(calls)] = BeforeChangeCall
          /\ queue = <<>>
          /\ ~Dirty
          /\ Settled
          /\ value' = value
          /\ delivered' = {p \in Props : value[p] # snapshot[p]}
          /\ calls' = calls \o ChangeCalls(delivered')
          /\ HookFirst(calls')
          /\ snapshot' = value
          /\ mode' = "idle"
    ]_vars

\* The beforechange listener set `b` when first called: hSum and hOut ran
\* again, the listener was called again, and only then were the listeners
\* of `b`, `sum` and `out` called, for the values after the second runs.
C15_Witness ==
  /\ mode = "idle"
  /\ ran = <<"hSum", "hOut", "hSum", "hOut">>
  /\ calls = <<BeforeChangeCall, BeforeChangeCall, <<"change", "b">>,
               <<"change", "sum">>, <<"change", "out">>>>
  /\ value["b"] = 10
  /\ value["sum"] = 12
  /\ value["out"] = 12
  /\ snapshot = value

\* The properties whose change listeners are among those called.
ChangeCalled == {p \in Props : ChangeCallsOf(p) > 0}

Pos(s, h) == CHOOSE i \in 1..Len(s) : s[i] = h

\* No ordering constraint between g and h: neither consumes, directly or
\* through other handlers, an output of the other.
Unconstrained(g, h) ==
  /\ g # h
  /\ h \notin Dependents({g}, ActiveHandlers)
  /\ g \notin Dependents({h}, ActiveHandlers)

\* The handlers of the batch, run and still to run, in that order.
BatchSequence == ran \o queue

\* The handlers of the batch come in the evaluation order.
InEvaluationOrder ==
  \A i \in 1..Len(BatchSequence) : \A j \in 1..Len(BatchSequence) :
    i < j => /\ BatchSequence[i] # BatchSequence[j]
             /\ Pos(order, BatchSequence[i]) < Pos(order, BatchSequence[j])

\* Handler h is ready at place k of the evaluation order: every handler it
\* consumes an output of is placed before k.
ReadyAt(h, k) ==
  \A g \in ActiveHandlers :
    DependsOn(h, g) => \E j \in 1..(k - 1) : order[j] = g

\* The evaluation order holds the active handlers, and at every place the
\* earliest registered of the handlers ready and not yet placed.
EarliestReadyFirst ==
  /\ {order[k] : k \in 1..Len(order)} = ActiveHandlers
  /\ \A k \in 1..Len(order) :
       /\ ReadyAt(order[k], k)
       /\ \A h \in ActiveHandlers :
            (ReadyAt(h, k) /\ \A j \in 1..(k - 1) : order[j] # h)
              => Pos(handlers, order[k]) <= Pos(handlers, h)

\* C17 as stated: any two handlers with no ordering constraint between them
\* are evaluated in registration order.
C17_UnconstrainedInRegistrationOrder ==
  phase = "Sealed" =>
    \A i \in 1..Len(order) : \A j \in 1..Len(order) :
      (i < j /\ Unconstrained(order[i], order[j])) =>
        Pos(handlers, order[i]) < Pos(handlers, order[j])

\* C17, amended: the evaluation order is fixed by seal() and is the
\* topological order in which, at every place, the earliest registered of
\* the handlers then ready comes next; the handlers of every batch are
\* invoked in that order, each at most once, the next handler invoked being
\* the first of those still to run.
C17_DeterministicOrder ==
  [][/\ phase' = "Sealed" => EarliestReadyFirst' /\ InEvaluationOrder'
     /\ phase = "Sealed" => order' = order /\ handlers' = handlers
     /\ RunHandler("none") =>
          /\ ran' = Append(ran, Head(queue))
          /\ lastError' = "none" => queue' = Tail(queue)
    ]_vars

\* hOut was registered first, hExt second and hSum last: hExt, with no
\* ordering constraint to hOut, was invoked before it.
C17_Witness ==
  /\ phase = "Sealed"
  /\ handlers = <<"hOut", "hExt", "hSum">>
  /\ order = <<"hExt", "hSum", "hOut">>
  /\ ran = <<"hExt", "hSum", "hOut">>
  /\ queue = <<>>
  /\ Unconstrained("hOut", "hExt")

\* The properties the enqueued set() calls write.
ToWrite == {p \in Props : requests[p] # Null}

\* The properties the set() calls of the latest batch wrote.
Wrote == {p \in Props : preBatch.req[p] # Null}

\* C18: the batch that applies an external write queues every handler that
\* reads the written property directly or through other handlers' outputs,
\* and when the batch ends, by notification or by returning to a get(),
\* each of them has run and every handler output is what the handler
\* computes from the current values of its inputs.
C18_DependentsRerun ==
  [][/\ ((Drain \/ \E p \in Readable : get(p)) /\ Dirty /\ ~Incoherent) =>
          /\ \A p \in ToWrite : value'[p] = requests[p]
          /\ Downstream(ToWrite, ActiveHandlers')
               \subseteq {queue'[k] : k \in 1..Len(queue')}
     /\ (BatchEnds /\ ~Incoherent) =>
          /\ Downstream(Wrote, ActiveHandlers)
               \subseteq {ran[k] : k \in 1..Len(ran)}
          /\ \A h \in Downstream(Wrote, ActiveHandlers) : RunsOf(h) = 1
          /\ Settled'
          /\ value' = value
    ]_vars

\* set('a', 10) was drained: hSum, which reads `a`, and hOut, which reads
\* what hSum provides, both ran, and `out` holds 10 + 3.
C18_Witness ==
  /\ mode = "idle"
  /\ lastError = "none"
  /\ preBatch.req["a"] = 10
  /\ preBatch.val["out"] = 5
  /\ ran = <<"hSum", "hOut">>
  /\ value["sum"] = 13
  /\ value["out"] = 13
  /\ delivered = {"a", "sum", "out"}

\* The number of times event e is in the log s.
Occurrences(s, e) == Cardinality({k \in 1..Len(s) : s[k] = e})

\* The place of event e in the log s, which has it.
PlaceOf(s, e) == CHOOSE k \in 1..Len(s) : s[k] = e

\* The lifecycle events a step adds: a step of a batch adds to the log, a
\* step that starts a batch or seals the model starts the log afresh.
AddedEvents ==
  IF mode = "handlers"
    THEN SubSeq(lifecycle', Len(lifecycle) + 1, Len(lifecycle'))
  ELSE IF instances' = instances THEN <<>>
  ELSE lifecycle'

\* The owners that exist: the optional node when it exists, and the items
\* of the node-list.
Existing == Owners(nodeExists, value[ListProp])

\* C19: in the sealed model the owners with a live handler-object instance
\* are the optional node, when it exists, and the items of the node-list;
\* a step constructs exactly one instance for each owner that comes into
\* existence and none for any other, calls dispose() exactly once on the
\* instance of each owner that ceases to exist and on nothing else, so
\* never on an instance that was not constructed or was disposed of
\* already, and detaches an instance and its outputs only after its
\* dispose() was called.
C19_OncePerActivation ==
  [][/\ phase' = "Sealed" => instances' = Existing'
     /\ mode = "handlers" =>
          /\ Len(lifecycle') >= Len(lifecycle)
          /\ SubSeq(lifecycle', 1, Len(lifecycle)) = lifecycle
     /\ \A o \in {0} \cup ItemIds :
          /\ Occurrences(AddedEvents, <<"construct", o>>) =
               IF o \in instances' \ instances THEN 1 ELSE 0
          /\ Occurrences(AddedEvents, <<"dispose", o>>) =
               IF o \in instances \ instances' THEN 1 ELSE 0
          /\ Occurrences(AddedEvents, <<"detach", o>>) =
               Occurrences(AddedEvents, <<"dispose", o>>)
          /\ Occurrences(AddedEvents, <<"dispose", o>>) = 1 =>
               PlaceOf(AddedEvents, <<"dispose", o>>)
                 < PlaceOf(AddedEvents, <<"detach", o>>)
    ]_vars

\* The optional node was created, and a later batch removed item 1 and
\* added item 2: dispose() was called on the instance of item 1, which was
\* then detached, and the instance of item 2 was constructed.
C19_Witness ==
  /\ phase = "Sealed"
  /\ mode = "idle"
  /\ nodeExists
  /\ value[ListProp] = <<2>>
  /\ instances = {0, 2}
  /\ lifecycle = <<<<"dispose", 1>>, <<"detach", 1>>, <<"construct", 2>>>>

\* The owner o is no longer there: its node has been disposed of or its
\* item removed, by a call already drained or still enqueued.
Departed(o) ==
  \/ o = FormerNode
  \/ o = 0 /\ ~WillExist
  \/ o \in ItemIds /\ o \notin Items(WillList)

\* C20: when the callback of a handler-object instance calls
\* output.hasChanged() after the instance's node was disposed of or its item
\* was removed, the call is discarded: no property value, node or list
\* changes, nothing is enqueued, so that no batch starts where none was due,
\* and no listener is called.
C20_LateCallbackDiscarded ==
  [][\A o \in {0, FormerNode} \cup ItemIds :
       (hasChanged(o) /\ Departed(o)) =>
         /\ UNCHANGED <<shape, store, instances, pending, mode, queue>>
         /\ Dirty' = Dirty
         /\ calls' = <<>>
         /\ delivered' = {}
         /\ lastError' = "none"
         /\ discarded' = {o}
    ]_vars

\* Item 1 was removed from the node-list while a message to its handler
\* object was under way; the message has arrived since, its callback was
\* discarded, and nothing is enqueued.
C20_Witness ==
  /\ phase = "Sealed"
  /\ mode = "idle"
  /\ discarded = {1}
  /\ 1 \notin instances
  /\ value[ListProp] = <<>>
  /\ inflight = {}
  /\ ~Dirty
  /\ calls = <<>>

\* The index of item x in the list s (indices start at 0).
IndexOf(s, x) == (CHOOSE k \in 1..Len(s) : s[k] = x) - 1

\* No item is in the list s twice: every item has one index.
OneIndexEach(s) ==
  \A j \in 1..Len(s) : \A k \in 1..Len(s) : s[j] = s[k] => j = k

RECURSIVE TenTo(_)
TenTo(n) == IF n = 0 THEN 1 ELSE 10 * TenTo(n - 1)

\* The k-th of the len elements hNames joined into n.
JoinedAt(n, len, k) == (n \div TenTo(len - k)) % 10

\* What hNames provided is the join of an array that has one element per
\* item of the list lst, the k-th being the value of `n` on the k-th item.
MirrorsItems(joined, lst, val) ==
  /\ joined >= 0
  /\ joined < TenTo(Len(lst))
  /\ \A k \in 1..Len(lst) :
       JoinedAt(joined, Len(lst), k) = val[ItemProp(lst[k])]

\* C22: whenever hNames, whose input is the items' property `n` taken
\* asList(), is invoked, the array it receives has as many elements as the
\* node-list has items, the k-th being the current value of `n` on the k-th
\* item; and it is invoked again whenever items are added, removed or
\* written to, so that what it provides mirrors the items when the batch
\* ends and between batches.
C22_AsListMirrorsItems ==
  [][/\ (RunHandler("none") /\ queue # <<>> /\ Head(queue) = "hNames") =>
          /\ lastError' = "none"
          /\ MirrorsItems(value'["allNames"], value[ListProp], value)
          /\ \A x \in Items(value[ListProp]) : value[ItemProp(x)] # Null
     /\ (phase' = "Sealed" /\ mode' = "idle" /\ "hNames" \in Registered
           /\ "hNames" \notin reexec') =>
          MirrorsItems(value'["allNames"], value'[ListProp], value')
    ]_vars

\* Item 1 was added and its `n` set to 2, then item 2 was added at index 0:
\* hNames was invoked with the array of the values of item 2 and item 1, in
\* that order.
C22_Witness ==
  /\ phase = "Sealed"
  /\ mode = "idle"
  /\ value[ListProp] = <<2, 1>>
  /\ value[ItemProp(1)] = 2
  /\ value[ItemProp(2)] = ItemDefault
  /\ value["allNames"] = 12
  /\ ran = <<"hNames">>

\* The realized graph with d levels below the root has a loop: hUp of a
\* leaf reads the `down` hDown provides on the node above, and that hDown
\* reads the `up` of the leaf.
UpDownLoop(d) ==
  /\ d >= 2
  /\ template # <<>>
  /\ "hDown" \in Registered
  /\ "hUp" \in template[1]

\* Every input of the handlers of `child` is provided.
ChildInputsMet == "hUp" \in Registered => "down0" \in defined

\* C23: seal() of a self-referential structure built with addDisabledNode()
\* and defineAs() succeeds and materializes nothing, also when the handlers
\* would form a cycle once realized; each create() verifies the graph it
\* realizes: it fails with CircularDependencyError and enqueues nothing when
\* that graph has a cycle, and succeeds, enqueueing the creation, when it has
\* none.
C23_CycleCheckedAtCreate ==
  [][/\ (seal /\ phase = "Building" /\ template # <<>>
           /\ nodeDecl = "disabled" /\ ChildInputsMet)
         => /\ phase' = "Sealed"
            /\ lastError' = "none"
            /\ ~nodeExists'
            /\ value'[TreeProp] = Null
     /\ (create /\ template # <<>> /\ ~Incoherent /\ ChildInputsMet)
         => /\ lastError' = "none"
            /\ nodeReq' = (IF nodeExists THEN "none" ELSE "create")
     /\ (createLeaf /\ ~Incoherent /\ UpDownLoop(2 + WillDeeper))
         => /\ lastError' = "CircularDependencyError"
            /\ UNCHANGED <<pending, store>>
     /\ (createLeaf /\ ~Incoherent /\ ~UpDownLoop(2 + WillDeeper))
         => /\ lastError' = "none"
            /\ requests'[TreeProp] = WillDeeper + 1
    ]_vars

\* The structure whose handlers loop once realized was sealed, `child` was
\* created, and the creation of the leaf below it failed.
C23_Witness ==
  /\ phase = "Sealed"
  /\ template = <<{"hUp", "hDown"}>>
  /\ nodeDecl = "disabled"
  /\ nodeExists
  /\ value[TreeProp] = Null
  /\ ~Dirty
  /\ lastError = "CircularDependencyError"

\* Handler h is invoked in this step and supplies its output.
Invocation(h) ==
  /\ mode = "handlers"
  /\ queue # <<>>
  /\ Head(queue) = h
  /\ ran' = Append(ran, h)
  /\ lastError' = "none"

\* The outputs of h the batch under way wrote from a set(), h not having run
\* since.
SetSinceLastRun(h) ==
  {p \in Outputs(h) :
     preBatch.req[p] # Null /\ \A i \in 1..Len(ran) : ran[i] # h}

C25_NodeExistence ==
  [][/\ (phase = "Building" /\ phase' = "Sealed")
         => nodeExists' = (nodeDecl = "enabled")
     /\ (phase = "Sealed" /\ ~nodeExists /\ nodeExists')
         => nodeReq = "create"
     /\ (nodeExists /\ ~nodeExists')
         => (nodeReq = "dispose" \/ (mode = "handlers" /\ ~preBatch.ex))
     /\ (create /\ ~Incoherent /\ lastError' = "none") => exists'
     /\ (dispose /\ ~Incoherent /\ lastError' = "none") => ~exists'
     /\ (mode = "idle" /\ mode' = "handlers") => nodeExists' = exists
     /\ \A h \in Handlers :
          (HandlerNode(h) = "child" /\ ran' = Append(ran, h))
            => nodeExists
    ]_vars

\* The node was added disabled, did not exist when the model was sealed, was
\* created, and its handler ran.
C25_Witness ==
  /\ phase = "Sealed"
  /\ nodeDecl = "disabled"
  /\ nodeExists
  /\ ~preBatch.ex
  /\ mode = "idle"
  /\ "hNode" \in {ran[i] : i \in 1..Len(ran)}
  /\ lastError = "none"

\* The handlers of the sequence q.
Queued(q) == {q[i] : i \in 1..Len(q)}

\* C26: a handler added to a specialization of the node is invoked only
\* while the node exists with that type, never for a node of another
\* specialization or of the base type, while a handler added to the base
\* type is invoked for the node whatever type it was created with: the
\* batch that creates the node queues the base handler always and the
\* specialized one exactly when the type is its own.
C26_SpecializedHandlers ==
  [][/\ \A h \in Handlers :
          (HandlerNode(h) = "child" /\ ran' = Append(ran, h))
            => /\ nodeExists
               /\ HandlerTag(h) # "base" => nodeType = HandlerTag(h)
     /\ (mode = "idle" /\ mode' = "handlers" /\ nodeReq = "create")
         => \A h \in Registered :
              HandlerNode(h) = "child"
                => (h \in Queued(queue')
                      <=> HandlerTag(h) \in {"base", nodeType})
    ]_vars

\* The node was created with the type 'bar': the handler of its base type
\* ran, the one added to 'foo' did not.
C26_Witness ==
  /\ mode = "idle"
  /\ nodeExists
  /\ nodeType = "bar"
  /\ {"hNode", "hFoo"} \subseteq Registered
  /\ ran = <<"hNode">>
  /\ value["r"] = DefVal("q")
  /\ value["f"] = Null

\* A call of the run-time API that changes the model.
Enqueues ==
  \/ \E p \in Props : \E v \in SetVals : set(p, v)
  \/ create
  \/ dispose
  \/ \E i \in 0..MaxList : nodesAddNode(i)
  \/ \E i \in 0..MaxList : nodesRemoveNode(i)

\* C27: set(), addNode(), removeNode(), create() and dispose() called from
\* outside only enqueue: the call changes no value, brings no node or item
\* into or out of existence, invokes no handler and calls no listener; a
\* batch, in which handlers run and after which listeners are called, is
\* only ever started by a drain (the end of the call stack or
\* notifyListeners()) or by a read.
C27_EnqueueOnly ==
  [][/\ Enqueues
         => /\ UNCHANGED <<value, nodeExists, snapshot, invoked, instances,
                           previous, received, order>>
            /\ mode' = "idle"
            /\ queue' = <<>>
            /\ ran' = <<>>
            /\ calls' = <<>>
            /\ delivered' = {}
     /\ (mode = "idle" /\ mode' = "handlers")
         => /\ Drain \/ \E p \in Props : get(p)
            /\ trigger' \in {"drain", "get"}
     /\ (ran' # ran /\ ran' # <<>>) => mode = "handlers"
     /\ (calls' # calls /\ calls' # <<>>)
         => (mode = "handlers" \/ Drain \/ \E p \in Props : get(p))
    ]_vars

\* hKeep has provided `kept` from `a`, and a set() of `a` is enqueued: no
\* value has changed and nothing has run since.
C27_Witness ==
  /\ phase = "Sealed"
  /\ mode = "idle"
  /\ requests["a"] = 10
  /\ value["a"] = DefVal("a")
  /\ value["kept"] = DefVal("a")
  /\ ran = <<>>
  /\ calls = <<>>
  /\ lastError = "none"

\* C28: the listener of the ready event is called at most once: at its
\* registration when the model is ready (not pending) then, otherwise when
\* the model next resumes, and never again, whatever later pending and
\* resumed events the model emits.
C28_ReadyOnce ==
  [][/\ readyCalls' <= 1
     /\ (listening = "none" /\ listening' # "none")
         => readyCalls' = (IF Incoherent THEN 0 ELSE 1)
     /\ (listening = "waiting" /\ mode = "handlers"
           /\ lastEvent' = "resumed")
         => readyCalls' = 1
     /\ (listening = "waiting" /\ readyCalls' = 1)
         => lastEvent' = "resumed"
     /\ (listening # "none" /\ readyCalls = 1) => readyCalls' = 1
    ]_vars

\* The listener was called once, and the model has turned pending since:
\* whatever follows, it is not called again.
C28_Witness ==
  /\ listening = "fired"
  /\ readyCalls = 1
  /\ lastEvent = "pending"
  /\ Incoherent
  /\ invoked = {"hExt"}
  /\ mode = "idle"

\* C29: a handler with an output taken asList() is accepted only when it
\* is added to the node-list that owns that output: seal() fails with a
\* structural error, and the model stays unsealed, when such a handler was
\* added to a regular node (hAllOnNode) or maps its list output to a
\* property of a foreign node (hAllForeign), and succeeds when the only such
\* handler is added to the node-list whose items own the output (hAll).
C29_ListOutputScope ==
  [][/\ (seal /\ phase = "Building"
           /\ Registered \cap {"hAllOnNode", "hAllForeign"} # {})
         => /\ lastError' = "StructuralError"
            /\ phase' = "Building"
            /\ UNCHANGED <<shape, store, pending>>
     /\ (seal /\ phase = "Building" /\ Registered = {"hAll"})
         => /\ lastError' = "none"
            /\ phase' = "Sealed"
    ]_vars

\* seal() has refused a model whose only handler is added to the node-list
\* and maps its list output to a property of the root.
C29_Witness ==
  /\ phase = "Building"
  /\ listDecl
  /\ handlers = <<"hAllForeign">>
  /\ lastError = "StructuralError"

\* C30: once the export of a model of constants and handlers without an
\* external source has been set on a fresh model of the same shape and the
\* batch that follows is over, every property of the fresh model has the
\* value it had in the original when it was exported.
C30_ExportImport ==
  (stage = "imported" /\ mode = "idle" /\ ~Dirty) => Export(value) = json

\* The original had `b` set to 10, its sum recomputed, and `kept` set from
\* outside; the fresh model, built with the default `b`, has them all after
\* the import.
C30_Witness ==
  /\ stage = "imported"
  /\ mode = "idle"
  /\ ~Dirty
  /\ Registered = {"hSum", "hKeep"}
  /\ defined = {"a", "b"}
  /\ json = {<<"a", DefVal("a")>>, <<"b", 10>>, <<"sum", DefVal("a") + 10>>,
             <<"kept", 10>>}
  /\ Export(value) = json

\* One move along a path: segment seg leads from node n to node m.
Moves(seg, n, m) ==
  \/ seg = ".." /\ \E e \in Tree : e.node = n /\ e.parent = m
  \/ seg = "/" /\ m = "root"
  \/ seg \notin {"..", "/"}
       /\ \E e \in Tree : e.parent = n /\ e.name = seg /\ e.node = m

\* The path leads from node n to node m, one move per segment.
Reaches(path, n, m) ==
  \E via \in [1..(Len(path) + 1) -> Nodes] :
    /\ via[1] = n
    /\ via[Len(path) + 1] = m
    /\ \A k \in 1..Len(path) : Moves(path[k], via[k], via[k + 1])

\* What the latest resolve() returned is the node its path leads to from
\* the context node, with the name of the string; it is no node only when
\* the path leads nowhere.  p('a') stays on the node, p('../a') is on its
\* parent, p('//a') on the root.
ResolvedAsDocumented ==
  resolved # <<>> =>
    LET r == resolved[1]
        s == RelativeSpecifier(r.str)
    IN /\ r.to.prop = r.str[Len(r.str)]
       /\ r.to.node # NoNode => Reaches(s.path, r.against, r.to.node)
       /\ r.to.node = NoNode =>
            ~ \E m \in Nodes : Reaches(s.path, r.against, m)
       /\ Len(r.str) = 1 => r.to.node = r.against
       /\ (r.str[1] = ".." /\ Len(r.str) = 2 /\ r.against # "root") =>
            r.to.node = "root"
       /\ (Len(r.str) = 3 /\ r.str[1] = "" /\ r.str[2] = "") =>
            r.to.node = "root"

\* The registered handlers with an input whose path leads nowhere.
Lost == Registered \cap {"hLost", "hGhost"}

\* C31: resolve() returns the node reached by moving to the parent for
\* each '..', to the root for the absolute marker and into the named node
\* for each name, with the name of the property; a handler with an input
\* whose path has a segment that leads nowhere makes seal() fail with a
\* StructuralError, so that a sealed model has none and no get() ever
\* raises one.
C31_Resolve ==
  /\ []ResolvedAsDocumented
  /\ [](phase = "Sealed" => Lost = {})
  /\ [][(seal /\ phase = "Building" /\ Lost # {})
         => phase' = "Building" /\ lastError' = "StructuralError"]_vars
  /\ [][(\E p \in Readable : get(p))
         => lastError' \notin StructuralErrors]_vars

\* seal() has refused a model whose handler reads p('../a') on the root,
\* and resolve() has just returned the root for p('../a') on `child`.
C31_Witness ==
  /\ phase = "Building"
  /\ "hLost" \in Registered
  /\ "a" \in defined
  /\ lastError = "StructuralError"
  /\ resolved = <<[str |-> <<"..", "a">>, against |-> "child",
                   to |-> [node |-> "root", prop |-> "a"]]>>

\* The handlers the batch under way re-runs.
InBatch == Items(ran) \cup Items(queue)

\* The handler about to run reads from every other handler of the batch
\* it depends on the value that handler emitted in this batch.
InputsSettled(h) ==
  \A g \in InBatch \ {h} :
    \A p \in Inputs(h) \cap Outputs(g) :
      /\ g \in Items(ran)
      /\ <<p, value[p]>> \in emitted

\* C32: in a batch no beforechange listener re-enters, every handler is
\* invoked at most once, and at its invocation every input another handler
\* of the batch provides already has the value that handler emitted in this
\* batch; hJoin, at the bottom of the diamond, adds up the new `sum` and
\* the new `kept`.
C32_GlitchFree ==
  /\ [](\A h \in Handlers : Occurrences(ran \o queue, h) <= 1)
  /\ [][(RunHandler("none") /\ lastError' = "none")
         => /\ InputsSettled(Head(queue))
            /\ (Head(queue) = "hJoin" /\ {"hSum", "hKeep"} \subseteq InBatch)
                 => value'["joined"] = value["sum"] + value["kept"]]_vars
  /\ [](("hJoin" \in Items(ran) /\ mode = "idle"
          /\ {"hSum", "hKeep"} \subseteq Items(ran))
         => value["joined"] = value["a"] + value["b"] + value["a"])

\* hJoin was registered first; a write to `a` has re-run the three
\* handlers, hJoin last and once, and `joined` is the new sum plus the new
\* `kept`.
C32_Witness ==
  /\ Len(handlers) = 3
  /\ handlers[1] = "hJoin"
  /\ mode = "idle"
  /\ preBatch.req["a"] = 10
  /\ Len(ran) = 3
  /\ ran[3] = "hJoin"
  /\ value["a"] = 10
  /\ value["joined"] = 10 + DefVal("b") + 10

\* A batch begins that only writes started: no handler is due to run
\* again, no node is created or disposed of, no item added or removed.
WriteBatchBegins ==
  /\ mode = "idle"
  /\ mode' = "handlers"
  /\ ToWrite # {}
  /\ reexec = {}
  /\ nodeReq = "none"
  /\ listReq = <<>>

LeftOfBatch == 2 * Len(queue) + (IF hook = "on" THEN 1 ELSE 0)

\* The calls of the beforechange listener among the calls c.
HookCallsIn(c) == {k \in 1..Len(c) : c[k] = BeforeChangeCall}

\* C34: every step of a drain either closes the batch, or leaves less of
\* it to do, or is a call of the beforechange listener that enqueued
\* something or the re-entry that follows it; a call of the listener that
\* enqueues nothing is the last of the batch, which closes next and leaves
\* nothing enqueued; and the drain, running to completion, ends.
C34_DrainTerminates ==
  /\ [][mode = "handlers" =>
          \/ mode' = "idle"
          \/ LeftOfBatch' < LeftOfBatch
          \/ (~Dirty /\ Dirty' /\ HookCallsIn(calls') # HookCallsIn(calls))
          \/ (Dirty /\ ~Dirty' /\ calls' = calls)]_vars
  /\ [][(mode = "handlers" /\ trigger = "drain" /\ queue = <<>>
          /\ hook = "on" /\ ~Dirty /\ ~Dirty')
         => hook' = "fired" /\ mode' = "handlers"]_vars
  /\ [][(mode = "handlers" /\ hook = "fired")
         => /\ mode' = "idle"
            /\ ~Dirty'
            /\ HookCallsIn(calls') = HookCallsIn(calls)]_vars
  /\ (mode = "handlers" ~> mode = "idle")

\* A drain with a beforechange listener that enqueued nothing has ended:
\* the listener was called once, before the change listeners heard of the
\* write to `a`, and nothing is enqueued.
C34_Witness ==
  /\ mode = "idle"
  /\ hook = "on"
  /\ trigger = "drain"
  /\ Wrote = {"a"}
  /\ Cardinality(HookCallsIn(calls)) = 1
  /\ calls[1] = BeforeChangeCall
  /\ "a" \in delivered
  /\ ~Dirty

\* C35: at most one subscription the Subscriber made is not disposed, the
\* one it holds: each requestSubject() disposes of the one held before and
\* makes a new one; and onDataUpdate() invokes the callback passed to the
\* most recent requestSubject(), that of the latest handler invocation.
C35_OneSubscription ==
  /\ [](/\ Cardinality(LiveOf("Subscriber")) <= 1
        /\ subscriber.held # 0 => LiveOf("Subscriber") = {subscriber.held})
  /\ [][(\E pair \in Pairs : RateHandler_handler(pair))
         => /\ Len(subs') = Len(subs) + 1
            /\ subs'[Len(subs')].live
            /\ subs'[Len(subs')].listener = "Subscriber"
            /\ subscriber.held # 0 => ~subs'[subscriber.held].live
            /\ \A i \in 1..Len(subs) :
                 i # subscriber.held => subs'[i] = subs[i]]_vars
  /\ [][(\E i \in 1..MaxSubscriptions : \E data \in RateVals :
            Subscriber_onDataUpdate(i, data))
         => /\ lastCall'.callback = rateHandler.invoked
            /\ lastCall'.callback # 0]_vars

\* The handler was invoked three times, the subscriptions of the first two
\* invocations are disposed, and data for the third was passed to the
\* callback of the third.
C35_Witness ==
  /\ Len(subs) = 3
  /\ \A i \in 1..3 : subs[i].listener = "Subscriber"
  /\ LiveOf("Subscriber") = {3}
  /\ rateHandler.invoked = 3
  /\ lastCall.op = "Subscriber.onDataUpdate"
  /\ lastCall.callback = 3
  /\ rateHandler.rate = 5

\* C36: once the handler has been invoked and dispose() has been called,
\* no subscription of the Subscriber is left undisposed, and no data update
\* reaches the output of the handler any more.
C36_DisposeReleases ==
  (rateHandler.disposed /\ rateHandler.invoked >= 1)
    => /\ LiveOf("Subscriber") = {}
       /\ lastCall.op # "Subscriber.onDataUpdate"

\* C37: a call of updateSubject() with the subject of the call before it
\* makes no subscription, disposes of none and returns false.
C37_SameSubject ==
  [][\A subject \in Subjects :
       (/\ lastCall.op = "updateSubject"
        /\ lastCall.arg = subject
        /\ Subscription_updateSubject(subject))
       => /\ subs' = subs
          /\ ~lastCall'.returned]_vars

\* C38: whenever nothing is enqueued the ticket has at least one leg, and
\* exactly one when its type is 'outright'.
C38_LegsOfType ==
  (ticket.willType = ticket.type /\ ticket.willLegs = ticket.legs)
    => /\ ticket.legs >= 1
       /\ ticket.type = "outright" => ticket.legs = 1

\* Whether each tenor is at least the one before it.
NonDecreasing(tenors) ==
  \A i \in 1..(Len(tenors) - 1) : tenors[i] <= tenors[i + 1]

\* C39: when the tenors the handler wrote before are non-decreasing by leg
\* and the modified tenors are non-decreasing and verifyTenors() does not
\* throw, the tenors written are non-decreasing by leg and every leg with
\* a modified tenor gets that tenor.
C39_TenorsOrdered ==
  tenorRun # <<>> =>
    LET run == tenorRun[1]
    IN (/\ NonDecreasing(run.current)
        /\ NonDecreasing(squash(run.modified))
        /\ ~run.thrown)
         => /\ NonDecreasing(run.output)
            /\ \A i \in 1..Len(run.modified) :
                 run.modified[i] # 0 => run.output[i] = run.modified[i]

====
